---- MODULE Spec2Model ----
(***************************************************************************)
(* Model of the Pivotal -> Shortcut entity migration pipeline              *)
(* (src/pivotal-import/pivotal_import.py): build_entity, EntityCollector   *)
(* (collect / commit / process_story_batch), the two emitters              *)
(* (get_mock_emitter, sc_creator), process_files_for_stories and the       *)
(* ledger / remediation CSV writers.                                       *)
(*                                                                         *)
(* commit is a sequential routine; its position is the variable pc.  Every *)
(* backend call is two steps (issue, return) so that the states in which a *)
(* call is in flight are states of the model.                              *)
(***************************************************************************)
EXTENDS Integers, Sequences, FiniteSets, TLC

\* ------------------------------------------------------------------ bounds
\* Largest number of source rows handed to the collector in one run.
MaxRows == 3

\* ------------------------------------------------------- program constants
\* BATCH_SIZE (100 in the source) scaled down so that a run of MaxRows
\* stories has a full batch followed by a partial one.
BATCH_SIZE == 2

PIVOTAL_TO_SHORTCUT_LABEL == "pivotal->shortcut"
PIVOTAL_TO_SHORTCUT_RUN_LABEL == "pivotal->shortcut RUN"
PIVOTAL_RELEASE_TYPE_LABEL == "pivotal-release"
PIVOTAL_HAD_REVIEW_LABEL == "pivotal-had-review"

select_keys ==
  [ story |-> { "comments", "created_at", "custom_fields", "deadline",
                "description", "estimate", "external_id", "external_links",
                "follower_ids", "group_id", "iteration_id", "labels", "name",
                "owner_ids", "requested_by_id", "story_type", "tasks",
                "workflow_state_id" },
    epic  |-> { "created_at", "description", "external_id", "group_ids",
                "labels", "name" } ]

\* ------------------------------------------------------------- "None"s
NoId == -1
NoEntity == [id |-> NoId, entity_type |-> ""]
NoIteration == <<>>
NoRow == [story_type |-> "", labels |-> <<>>, iter |-> <<>>, attach |-> <<>>,
          bad |-> FALSE, reviewers |-> <<>>]

\* ----------------------------------------------------------- source rows
\* A source row as parse_row / add_attached_files_in_comments hand it to
\* build_entity, reduced to the fields the pipeline reads:
\*   story_type  the discriminator,
\*   labels      the declared label names, in order,
\*   iter        <<pt_iteration_id, start_date, end_date>> or <<>>,
\*   attach      for each comment of the row that declares attachments, the
\*               number of its files found in the local directory
\*               data/<external_id> (<<>>: the directory does not exist),
\*   bad         the payload built from the row is one the target tracker
\*               rejects,
\*   reviewers   the reviewer names, in order.
Rows ==
  { [story_type |-> "feature", labels |-> <<"a", "b">>,
     iter |-> <<"42", "d1", "d2">>, attach |-> <<>>, bad |-> FALSE,
     reviewers |-> <<>>],
    [story_type |-> "feature", labels |-> <<"b", "a">>,
     iter |-> <<"42", "d1", "d3">>, attach |-> <<1>>, bad |-> FALSE,
     reviewers |-> <<>>],
    [story_type |-> "release", labels |-> <<>>,
     iter |-> <<>>, attach |-> <<>>, bad |-> TRUE,
     reviewers |-> <<>>],
    [story_type |-> "feature", labels |-> <<>>,
     iter |-> <<"42", "d1", "d2">>, attach |-> <<2, 1>>, bad |-> FALSE,
     reviewers |-> <<>>],
    [story_type |-> "feature", labels |-> <<"a">>,
     iter |-> <<"43", "d1", "d2">>, attach |-> <<>>, bad |-> FALSE,
     reviewers |-> <<"r1">>],
    [story_type |-> "epic", labels |-> <<"a">>,
     iter |-> <<>>, attach |-> <<>>, bad |-> FALSE,
     reviewers |-> <<>>],
    [story_type |-> "epic", labels |-> <<"b">>,
     iter |-> <<>>, attach |-> <<>>, bad |-> FALSE,
     reviewers |-> <<>>],
    [story_type |-> "epic", labels |-> <<PIVOTAL_TO_SHORTCUT_LABEL>>,
     iter |-> <<>>, attach |-> <<>>, bad |-> FALSE,
     reviewers |-> <<>>] }

\* Top-level keys of the parsed row d before build_entity touches it.
parsed_keys(row) ==
  { "name", "story_type", "external_id", "created_at", "requester",
    "pt_state" }
    \cup (IF row.labels # <<>> THEN {"labels"} ELSE {})
    \cup (IF row.iter # <<>>
            THEN {"pt_iteration_id", "pt_iteration_start_date",
                  "pt_iteration_end_date"}
            ELSE {})
    \cup (IF row.attach # <<>> THEN {"comments"} ELSE {})
    \cup (IF row.reviewers # <<>>
            THEN {"reviewers", "review_types", "review_states"}
            ELSE {})

\* A label dict {"name": ...}.  obj tells which string object the name is:
\* "module" for the module-level constants build_entity appends, "csv" for a
\* string produced by parsing the export.
Label(n, o) == [name |-> n, obj |-> o]

RECURSIVE CsvLabels(_)
CsvLabels(names) ==
  IF names = <<>> THEN <<>>
  ELSE <<Label(Head(names), "csv")>> \o CsvLabels(Tail(names))

\* The payload dict of an entity record.
Payload(keys, name, labels, story_type, start, end, attach) ==
  [ keys |-> keys, name |-> name, labels |-> labels,
    story_type |-> story_type, start_date |-> start, end_date |-> end,
    epic_id |-> NoId, iteration_id |-> NoId, attachments |-> attach ]

\* An entity record as the collector holds it.
Item(type, entity, iteration, pt_iteration_id, row) ==
  [ type |-> type, entity |-> entity, iteration |-> iteration,
    pt_iteration_id |-> pt_iteration_id, parsed_row |-> row,
    imported_entity |-> NoEntity, error_message |-> "" ]

build_run_label_entity ==
  Item("label",
       Payload({"name"}, PIVOTAL_TO_SHORTCUT_RUN_LABEL, <<>>, "", "", "", <<>>),
       NoIteration, "", NoRow)

\* entity = {k: d[k] for k in select_keys[type] if k in d}
project_all(type, dkeys) == dkeys
project(type, dkeys) == select_keys[type] \cap dkeys

\* build_entity: releases become stories of type "chore".
built_story_type_kept(row) == row.story_type
built_story_type(row) ==
  IF row.story_type = "release" THEN "chore" ELSE row.story_type

\* build_entity(ctx, d); ext is the row's external id.
build_entity(row, ext) ==
  LET type == IF row.story_type = "epic" THEN "epic" ELSE "story"
      labels0 == CsvLabels(row.labels)
                   \o << Label(PIVOTAL_TO_SHORTCUT_LABEL, "module"),
                         Label(PIVOTAL_TO_SHORTCUT_RUN_LABEL, "module") >>
      labels1 == IF row.story_type = "release"
                   THEN labels0
                          \o <<Label(PIVOTAL_RELEASE_TYPE_LABEL, "module")>>
                   ELSE labels0
      had_review == type = "story" /\ row.reviewers # <<>>
      labels == IF had_review
                  THEN labels1
                         \o <<Label(PIVOTAL_HAD_REVIEW_LABEL, "module")>>
                  ELSE labels1
      pt_iteration_id == IF row.iter # <<>> THEN row.iter[1] ELSE ""
      iteration == IF type = "story" /\ pt_iteration_id # ""
                     THEN row.iter ELSE NoIteration
      dkeys == parsed_keys(row) \cup {"labels"}
                 \cup (IF type = "story"
                         THEN {"group_id", "workflow_state_id",
                               "requested_by_id"}
                         ELSE {"group_ids"})
                 \cup (IF had_review THEN {"follower_ids", "comments"}
                       ELSE {})
  IN  Item(type,
           Payload(project(type, dkeys), ext, labels, built_story_type(row),
                   "", "", row.attach),
           iteration, pt_iteration_id, row)

\* ------------------------------------------------------------ CSV files
\* Header row of the ledger CSV (columns type,id).
Header == [type |-> "type", id |-> NoId]

\* The ledger an earlier commit left behind, and the first id the target
\* tracker has not handed out yet.
PriorLedger == << Header, [type |-> "label", id |-> 1],
                          [type |-> "story", id |-> 2] >>
FirstFreshId == Len(PriorLedger)

LedgerRow(e) == [type |-> e.entity_type, id |-> e.id]

RECURSIVE LedgerRows(_)
LedgerRows(entities) ==
  IF entities = <<>> THEN <<>>
  ELSE <<LedgerRow(Head(entities))>> \o LedgerRows(Tail(entities))

\* write_to_imported_entities_csv(entities, mode) applied to the file.
write_to_imported_entities_csv_truncating(file, entities, mode) ==
  IF entities = <<>> THEN file
  ELSE <<Header>> \o LedgerRows(entities)
write_to_imported_entities_csv(file, entities, mode) ==
  IF entities = <<>> THEN file
  ELSE (IF mode = "w" THEN <<Header>> ELSE file) \o LedgerRows(entities)

FailedHeader == [story_name |-> "story_name", error_message |-> "error_message"]

RECURSIVE FailedRows(_)
FailedRows(failed) ==
  IF failed = <<>> THEN <<>>
  ELSE << [story_name |-> Head(failed).entity.name,
           error_message |-> IF Head(failed).error_message = ""
                               THEN "Unknown error"
                               ELSE Head(failed).error_message] >>
       \o FailedRows(Tail(failed))

\* write_failed_stories(failed_stories) applied to data/failed_stories.csv;
\* <<>> is the file that does not exist yet.
write_failed_stories(file, failed) ==
  IF failed = <<>> THEN file
  ELSE (IF file = <<>> THEN <<FailedHeader>> ELSE file) \o FailedRows(failed)

\* write_failed_files_csv(failed_files) applied to data/failed_files.csv.
write_failed_files_csv(file, failed_files) ==
  IF failed_files = <<>> THEN file
  ELSE (IF file = <<>> THEN <<[story_id |-> "story_id"]>> ELSE file)
       \o failed_files

\* ---------------------------------------------------------------- state
VARIABLES
  pc,                 \* position of the run: init, collecting, labels, epics,
                      \* iterations, link, files, emit, write, done, raised
  is_dry_run,         \* EntityCollector.is_dry_run (mock emitter iff TRUE)
  interned,           \* whether a parsed string equal to a module constant
                      \* is the same object as the constant
  labels, epics, stories, iterations,   \* EntityCollector buckets
  iteration_strings,  \* EntityCollector.iteration_strings
  items,              \* the list handed to the emitter in the current phase
  idx,                \* loop position in items (phases) / in stories (files)
  acc,                \* sc_creator: all_successful_items
  i,                  \* commit: start of the current story batch (1-based)
  processed,          \* indices of the stories that passed file processing
  failed,             \* indices of the stories that failed file processing
  all_failed_files,   \* process_files_for_stories: all_failed_files
  created_batch,      \* indices of the stories the emitter returned
  written_entities,   \* commit: written_entities
  created_entities,   \* commit: created_entities
  ledger,             \* shortcut_imported_entities_csv
  failed_stories_csv, \* data/failed_stories.csv
  failed_files_csv,   \* data/failed_files.csv
  sc_next_id,         \* next id the target tracker assigns
  mock_global_id,     \* get_mock_emitter: _mock_global_id
  store,              \* (type, id) of the entities existing in the tracker
  calls,              \* log of the creation / upload calls, in issue order
  dpc,                \* deletion script: off, idle (between runs), deleting
  drun,               \* number of deletion runs started
  apply,              \* args.apply of the current deletion run
  ledger_read,        \* the ledger file as the deletion run found it
  sorted_entities,    \* main: sorted_entities
  dpos,               \* main: loop position in sorted_entities
  successful_deletions, \* main: successful_deletions
  exit_code,          \* return value of the last deletion run
  dlog,               \* log of the delete calls and sleeps, in order
  export_pc,          \* process_pt_csv_export alone: off, reading,
                      \* finished, raised
  csv_len,            \* number of rows of the export file
  row_pos,            \* the row the reader is at (1-based)
  built,              \* what build_entity returned for the rows collected
  link_pc,            \* one comment's upload alone: off, comment, linked
  comment_attachments, \* the attachments the comment declares
  comment_links,      \* file_attachment_strings appended to the comment
  cpc,                \* add_external_id_comment.py: off, idle (between
                      \* runs), running
  crun,               \* number of runs of the comment script started
  tracking_csv,       \* data/story_external_ids.csv (rows below the header)
  csv_stories,        \* process_existing_stories: stories, updated in place
  cpos,               \* process_existing_stories: loop position (1-based)
  comment_log         \* the comment requests sent to the tracker, in order

vars == << pc, is_dry_run, interned, labels, epics, stories, iterations,
           iteration_strings, items, idx, acc, i, processed, failed,
           all_failed_files, created_batch, written_entities,
           created_entities, ledger, failed_stories_csv, failed_files_csv,
           sc_next_id, mock_global_id, store, calls, dpc, drun, apply,
           ledger_read, sorted_entities, dpos, successful_deletions,
           exit_code, dlog, export_pc, csv_len, row_pos, built, link_pc,
           comment_attachments, comment_links, cpc, crun, tracking_csv,
           csv_stories, cpos, comment_log >>

collectorVars == << labels, epics, stories, iterations, iteration_strings >>
emitVars == << items, idx, acc >>
batchVars == << i, processed, failed, all_failed_files, created_batch >>
fileVars == << ledger, failed_stories_csv, failed_files_csv >>
commitVars == << written_entities, created_entities >>
backendVars == << sc_next_id, mock_global_id, store, calls >>
deleteVars == << dpc, drun, apply, ledger_read, sorted_entities, dpos,
                 successful_deletions, exit_code, dlog >>
importVars == << pc, is_dry_run, interned, collectorVars, emitVars,
                 batchVars, failed_stories_csv, failed_files_csv,
                 commitVars, backendVars >>
exportVars == << export_pc, csv_len, row_pos, built >>
linkVars == << link_pc, comment_attachments, comment_links >>
commentVars == << cpc, crun, tracking_csv, csv_stories, cpos, comment_log >>
NoExit == -1

\* process_pt_csv_export on its own is not running.
ExportOff ==
  export_pc = "off" /\ csv_len = 0 /\ row_pos = 1 /\ built = <<>>

\* No comment is being handled on its own.
LinksOff ==
  link_pc = "off" /\ comment_attachments = <<>> /\ comment_links = <<>>

\* The comment script is not running and has never run.
CommentOff ==
  /\ cpc = "off" /\ crun = 0 /\ tracking_csv = <<>> /\ csv_stories = <<>>
  /\ cpos = 1 /\ comment_log = <<>>

SeqToSet(s) == { s[k] : k \in DOMAIN s }

RowsOfLedger(file) == SeqToSet(file) \ {Header}

\* The last call of the log has been issued and has not returned.
Pending == calls # <<>> /\ calls[Len(calls)].ret = "pending"

Call(op, type, payloads, ret) ==
  [op |-> op, type |-> type, payloads |-> payloads, ret |-> ret]

Returned(ret) == [calls EXCEPT ![Len(calls)].ret = ret]

\* EntityCollector.__init__, followed by the choice of the environment: the
\* backend variant, the ledger file found on disk, string identity.
Init ==
  /\ pc = "init"
  /\ is_dry_run \in BOOLEAN
  /\ interned \in BOOLEAN
  /\ labels = <<>> /\ epics = <<>> /\ stories = <<>> /\ iterations = <<>>
  /\ iteration_strings = {}
  /\ items = <<>> /\ idx = 1 /\ acc = <<>>
  /\ i = 1 /\ processed = <<>> /\ failed = <<>> /\ all_failed_files = <<>>
  /\ created_batch = <<>>
  /\ written_entities = {} /\ created_entities = <<>>
  /\ ledger \in {<<>>, PriorLedger}
  /\ failed_stories_csv = <<>> /\ failed_files_csv = <<>>
  /\ sc_next_id = FirstFreshId
  /\ mock_global_id = 0
  /\ store = RowsOfLedger(PriorLedger)
  /\ calls = <<>>
  /\ dpc = "off" /\ drun = 0 /\ apply = FALSE
  /\ ledger_read = <<>> /\ sorted_entities = <<>> /\ dpos = 1
  /\ successful_deletions = {} /\ exit_code = NoExit /\ dlog = <<>>
  /\ ExportOff /\ LinksOff /\ CommentOff

\* EntityCollector.collect(item): the bucket the item is routed to.
collect_item(item) ==
  /\ stories' = IF item.type = "story" THEN Append(stories, item) ELSE stories
  /\ iteration_strings' =
       IF item.type = "story" /\ item.iteration # NoIteration
         THEN iteration_strings \cup {item.iteration}
         ELSE iteration_strings
  /\ epics' = IF item.type = "epic" THEN Append(epics, item) ELSE epics
  /\ labels' = IF item.type = "label" THEN Append(labels, item) ELSE labels
  /\ UNCHANGED iterations

\* process_pt_csv_export: the run label is collected before any row.
CollectRunLabel ==
  /\ pc = "init"
  /\ collect_item(build_run_label_entity)
  /\ pc' = "collecting"
  /\ UNCHANGED << exportVars, linkVars, commentVars, deleteVars, is_dry_run, interned, emitVars, batchVars, fileVars,
                  commitVars, backendVars >>

\* process_pt_csv_export: one row is built and collected.
Collect ==
  /\ pc = "collecting"
  /\ Len(stories) + Len(epics) < MaxRows
  /\ \E row \in Rows :
       collect_item(build_entity(row,
                                 ToString(Len(stories) + Len(epics) + 1)))
  /\ UNCHANGED << exportVars, linkVars, commentVars, deleteVars, pc, is_dry_run, interned, emitVars, batchVars, fileVars,
                  commitVars, backendVars >>


\* ------------------------------------------------------- commit: phases
NonStoryPhases == {"labels", "epics", "iterations"}

\* commit: the order of its sections (labels, epics, iterations, stories).
PhaseAfter_swapped(p) == CASE p = "labels" -> "iterations"
                           [] p = "iterations" -> "epics"
                           [] OTHER -> "stories"
PhaseAfter(p) == CASE p = "labels" -> "epics"
                   [] p = "epics" -> "iterations"
                   [] OTHER -> "stories"

\* commit: the section it starts with, self.labels handed to the emitter.
FirstPhase_epics == "epics"
FirstPhase == "labels"

\* commit: the collected list a label or epic section hands to the emitter.
PhaseInput(p) == IF p = "labels" THEN labels ELSE epics

\* All orders in which a Python set of strings can be iterated.
Orders(S) ==
  { o \in [1..Cardinality(S) -> S] :
      \A a, b \in 1..Cardinality(S) : a # b => o[a] # o[b] }

\* commit: iteration_entities built from iteration_strings, in iteration
\* order of the set (id, start_date, end_date = iteration_string.split("|")).
IterationEntities(order) ==
  [ k \in DOMAIN order |->
      Item("iteration",
           Payload({"name", "start_date", "end_date"}, "PT " \o order[k][1],
                   <<>>, "", order[k][2], order[k][3], <<>>),
           NoIteration, order[k][1], NoRow) ]

\* commit starts: self.emitter(self.labels).  sc_creator's
\* write_to_imported_entities_csv([], mode='w') returns at once (no entity).
StartCommit ==
  /\ pc = "collecting"
  /\ pc' = FirstPhase
  /\ items' = PhaseInput(FirstPhase)
  /\ idx' = 1
  /\ acc' = <<>>
  /\ ledger' = IF is_dry_run THEN ledger
               ELSE write_to_imported_entities_csv(ledger, <<>>, "w")
  /\ UNCHANGED << exportVars, linkVars, commentVars, deleteVars, is_dry_run, interned, collectorVars, batchVars,
                  failed_stories_csv, failed_files_csv, commitVars,
                  backendVars >>

\* mock_emitter(items): fabricated ids, no failure, the items are returned.
MockCreated_sameId(item, id) ==
  [item EXCEPT !.imported_entity = [id |-> 0, entity_type |-> item.type]]
MockCreated(item, id) ==
  [item EXCEPT !.imported_entity = [id |-> id, entity_type |-> item.type]]

MockEmit ==
  /\ pc \in NonStoryPhases
  /\ is_dry_run
  /\ idx <= Len(items)
  /\ items' = [k \in DOMAIN items |->
                 MockCreated(items[k], mock_global_id + k - 1)]
  /\ acc' = items'
  /\ idx' = Len(items) + 1
  /\ mock_global_id' = mock_global_id + Len(items)
  /\ calls' = calls \o [k \in DOMAIN items |->
                          Call("mock", items[k].type, <<items[k].entity>>,
                               "ok")]
  /\ UNCHANGED << exportVars, linkVars, commentVars, deleteVars, pc, is_dry_run, interned, collectorVars, batchVars,
                  fileVars, commitVars, sc_next_id, store >>

\* sc_creator, non-story loop: sc_post for the next item is issued.
CreateIssue ==
  /\ pc \in NonStoryPhases
  /\ ~is_dry_run
  /\ idx <= Len(items)
  /\ ~Pending
  /\ calls' = Append(calls, Call("create", items[idx].type,
                                 <<items[idx].entity>>, "pending"))
  /\ UNCHANGED << exportVars, linkVars, commentVars, deleteVars, pc, is_dry_run, interned, collectorVars, emitVars,
                  batchVars, fileVars, commitVars, sc_next_id,
                  mock_global_id, store >>

\* sc_creator, non-story loop: what the ledger holds after the call for one
\* item returned (res is the created entity when ok).
LedgerAfterCreate_always(file, ok, res) ==
  write_to_imported_entities_csv(file, <<res>>, "a")
LedgerAfterCreate(file, ok, res) ==
  IF ok THEN write_to_imported_entities_csv(file, <<res>>, "a") ELSE file

\* sc_creator, non-story loop: sc_post returns.  On success the item is
\* recorded.  On failure the handler calls write_failed_stories with two
\* positional arguments; the function takes one, so a TypeError leaves the
\* handler, sc_creator and commit.
CreateReturn ==
  /\ pc \in NonStoryPhases
  /\ ~is_dry_run
  /\ Pending
  /\ \E ok \in BOOLEAN :
       LET res == [id |-> sc_next_id, entity_type |-> items[idx].type]
           item == [items[idx] EXCEPT !.imported_entity = res]
       IN  /\ calls' = Returned(IF ok THEN "ok" ELSE "fail")
           /\ ledger' = LedgerAfterCreate(ledger, ok, res)
           /\ items' = IF ok THEN [items EXCEPT ![idx] = item] ELSE items
           /\ acc' = IF ok THEN Append(acc, item) ELSE acc
           /\ idx' = IF ok THEN idx + 1 ELSE idx
           /\ store' = IF ok THEN store \cup {LedgerRow(res)} ELSE store
           /\ sc_next_id' = IF ok THEN sc_next_id + 1 ELSE sc_next_id
           /\ pc' = IF ok THEN pc ELSE "raised"
  /\ UNCHANGED << exportVars, linkVars, commentVars, deleteVars, is_dry_run, interned, collectorVars, batchVars,
                  failed_stories_csv, failed_files_csv, commitVars,
                  mock_global_id >>

RECURSIVE Imported(_)
Imported(recs) ==
  IF recs = <<>> THEN <<>>
  ELSE <<Head(recs).imported_entity>> \o Imported(Tail(recs))

RECURSIVE NotWritten(_, _)
NotWritten(entities, written) ==
  IF entities = <<>> THEN <<>>
  ELSE (IF LedgerRow(Head(entities)) \in written THEN <<>>
        ELSE <<Head(entities)>>)
       \o NotWritten(Tail(entities), written)

\* commit: "if not self.is_dry_run:" around every write of created entities
\* to the ledger.
commit_writes_always(dry, file, entities, mode) ==
  write_to_imported_entities_csv(file, entities, mode)
commit_writes(dry, file, entities, mode) ==
  IF dry THEN file ELSE write_to_imported_entities_csv(file, entities, mode)

\* commit: the code after self.emitter(...) returned in the label, epic or
\* iteration section, up to the next emitter call.
PhaseEnd ==
  /\ pc \in NonStoryPhases
  /\ idx > Len(items)
  /\ ~Pending
  /\ LET result == acc
         entities == Imported(result)
         new == IF pc = "labels" THEN entities
                ELSE NotWritten(entities, written_entities)
         next == PhaseAfter(pc)
     IN  /\ labels' = IF pc = "labels" THEN result ELSE labels
         /\ epics' = IF pc = "epics" THEN result ELSE epics
         /\ iterations' = IF pc = "iterations" THEN result ELSE iterations
         /\ ledger' = commit_writes(is_dry_run, ledger, new,
                                    IF pc = "labels" THEN "w" ELSE "a")
         /\ written_entities' =
              IF is_dry_run THEN written_entities
              ELSE written_entities \cup SeqToSet(LedgerRows(new))
         /\ created_entities' = created_entities \o entities
         /\ \E order \in (IF next = "iterations" THEN Orders(iteration_strings)
                          ELSE {<<>>}) :
              items' = CASE next = "epics" -> epics
                         [] next = "iterations" -> IterationEntities(order)
                         [] OTHER -> <<>>
         /\ pc' = IF next = "stories"
                    THEN (IF stories = <<>> THEN "done" ELSE "link")
                    ELSE next
  /\ idx' = 1
  /\ acc' = <<>>
  /\ UNCHANGED << exportVars, linkVars, commentVars, deleteVars, is_dry_run, interned, stories, iteration_strings,
                  batchVars, failed_stories_csv, failed_files_csv,
                  backendVars >>


\* ------------------------------------------------ commit: story batches
Min(a, b) == IF a < b THEN a ELSE b

\* batch = self.stories[i:i + BATCH_SIZE], as indices into self.stories.
BatchEnd_oneMore(from) == Min(from + BATCH_SIZE, Len(stories))
BatchEnd(from) == Min(from + BATCH_SIZE - 1, Len(stories))
Batch(from) == from .. BatchEnd(from)

\* label_name is not CONSTANT: identity of string objects.  The labels that
\* build_entity appends are the constant itself; a parsed string with the
\* same characters is the same object only if the runtime shares it.
IsObject(label, constant) ==
  label.name = constant /\ (label.obj = "module" \/ interned)

RECURSIVE ScanEpicLabels(_, _, _)
ScanEpicLabels(ls, id, m) ==
  IF ls = <<>> THEN m
  ELSE ScanEpicLabels(
         Tail(ls), id,
         IF /\ ~IsObject(Head(ls), PIVOTAL_TO_SHORTCUT_LABEL)
            /\ ~IsObject(Head(ls), PIVOTAL_TO_SHORTCUT_RUN_LABEL)
           THEN (Head(ls).name :> id) @@ m
           ELSE m)

RECURSIVE ScanEpics(_, _)
ScanEpics(es, m) ==
  IF es = <<>> THEN m
  ELSE ScanEpics(Tail(es),
                 ScanEpicLabels(Head(es).entity.labels,
                                Head(es).imported_entity.id, m))

\* collect_epic_label_mapping(epics): label name -> epic id.
collect_epic_label_mapping(es) == ScanEpics(es, <<>>)

RECURSIVE AssignEpic(_, _, _)
AssignEpic(ls, m, entity) ==
  IF ls = <<>> THEN entity
  ELSE AssignEpic(
         Tail(ls), m,
         IF Head(ls).name \in DOMAIN m
           THEN [entity EXCEPT !.epic_id = m[Head(ls).name],
                               !.keys = @ \cup {"epic_id"}]
           ELSE entity)

\* assign_stories_to_epics, for one story.
assign_story_to_epic(story, m) ==
  [story EXCEPT !.entity = AssignEpic(story.entity.labels, m, story.entity)]

RECURSIVE ScanIterations(_, _)
ScanIterations(its, d) ==
  IF its = <<>> THEN d
  ELSE ScanIterations(
         Tail(its),
         (Head(its).pt_iteration_id :> Head(its).imported_entity.id) @@ d)

\* collect_pt_iteration_mapping(iterations): source id -> target id.
collect_pt_iteration_mapping_firstOnly(its) ==
  IF its = <<>> THEN <<>> ELSE ScanIterations(<<Head(its)>>, <<>>)
collect_pt_iteration_mapping(its) == ScanIterations(its, <<>>)

\* assign_stories_to_iterations, for one story whose id is in the mapping.
assign_story_to_iteration(story, d) ==
  IF story.pt_iteration_id # ""
    THEN [story EXCEPT !.entity.iteration_id = d[story.pt_iteration_id],
                       !.entity.keys = @ \cup {"iteration_id"}]
    ELSE story

\* Stories of the batch for which pt_iteration_mapping[...] raises KeyError.
Unmapped(from, d) ==
  { k \in Batch(from) : /\ stories[k].pt_iteration_id # ""
                        /\ stories[k].pt_iteration_id \notin DOMAIN d }

\* commit: assign_stories_to_epics(batch, self.epics) and
\* assign_stories_to_iterations(batch, self.iterations) for the batch at i.
Link ==
  /\ pc = "link"
  /\ LET m == collect_epic_label_mapping(epics)
         d == collect_pt_iteration_mapping(iterations)
         missing == Unmapped(i, d)
         stop == IF missing = {} THEN Len(stories) + 1
                 ELSE CHOOSE k \in missing : \A j \in missing : k <= j
     IN  /\ stories' =
              [ k \in DOMAIN stories |->
                  IF k \notin Batch(i) THEN stories[k]
                  ELSE IF k < stop
                    THEN assign_story_to_iteration(
                           assign_story_to_epic(stories[k], m), d)
                    ELSE assign_story_to_epic(stories[k], m) ]
         /\ pc' = IF missing = {} THEN "files" ELSE "raised"
  /\ idx' = i
  /\ processed' = <<>>
  /\ failed' = <<>>
  /\ all_failed_files' = <<>>
  /\ created_batch' = <<>>
  /\ UNCHANGED << exportVars, linkVars, commentVars, deleteVars, is_dry_run, interned, labels, epics, iterations,
                  iteration_strings, items, acc, i, fileVars, commitVars,
                  backendVars >>

\* os.path.isdir(data/<external_id>)
HasDir(story) == story.parsed_row.attach # <<>>

\* The comments of the story that still carry attachments with a local file.
OpenComments(story) ==
  { c \in DOMAIN story.entity.attachments : story.entity.attachments[c] > 0 }

\* process_files_for_stories needs an upload call for this story.
NeedsUpload(story, dry) ==
  HasDir(story) /\ OpenComments(story) # {} /\ ~dry

\* The comment loop reaches the first comment that has files to upload.
NextComment(story) ==
  CHOOSE c \in OpenComments(story) :
    \A d \in OpenComments(story) : c <= d

\* comment.pop("attachments", []) in the comment loop of
\* process_files_for_stories: the comment no longer declares attachments.
pop_attachments_peek(story, c) == story
pop_attachments(story, c) == [story EXCEPT !.entity.attachments[c] = 0]

\* comment.pop("attachments") on every comment.
AllPopped(story) ==
  [story EXCEPT !.entity.attachments =
                   [c \in DOMAIN story.entity.attachments |-> 0]]

\* process_files_for_stories: a story handled without an upload call (no
\* directory, no attachment left in its comments, or dry run: mocked files).
FilesLocal ==
  /\ pc = "files"
  /\ idx <= BatchEnd(i)
  /\ ~NeedsUpload(stories[idx], is_dry_run)
  /\ stories' = IF HasDir(stories[idx])
                  THEN [stories EXCEPT ![idx] = AllPopped(@)]
                  ELSE stories
  /\ processed' = Append(processed, idx)
  /\ idx' = idx + 1
  /\ UNCHANGED << exportVars, linkVars, commentVars, deleteVars, pc, is_dry_run, interned, labels, epics, iterations,
                  iteration_strings, items, acc, i, failed, all_failed_files,
                  created_batch, fileVars, commitVars, backendVars >>

\* process_files_for_stories: sc_upload_files for the comment's files.
UploadIssue ==
  /\ pc = "files"
  /\ idx <= BatchEnd(i)
  /\ NeedsUpload(stories[idx], is_dry_run)
  /\ ~Pending
  /\ calls' = Append(calls, Call("upload", "file", <<stories[idx].entity>>,
                                 "pending"))
  /\ UNCHANGED << exportVars, linkVars, commentVars, deleteVars, pc, is_dry_run, interned, collectorVars, emitVars,
                  batchVars, fileVars, commitVars, sc_next_id,
                  mock_global_id, store >>

FileEntities(first, n) ==
  [k \in 1..n |-> [id |-> first + k - 1, entity_type |-> "file"]]

\* process_files_for_stories: the successful files are written to the
\* ledger immediately after the upload, whatever happened to the others.
LedgerAfterUpload_unlessFailed(file, successful_files, failed_files) ==
  IF failed_files = <<>>
    THEN write_to_imported_entities_csv(file, successful_files, "a")
    ELSE file
LedgerAfterUpload(file, successful_files, failed_files) ==
  write_to_imported_entities_csv(file, successful_files, "a")

\* process_files_for_stories: a story whose upload failed goes to
\* failed_stories, any other story to successful_stories.
ProcessedAfterFiles_always(done, k, story_failed) == Append(done, k)
ProcessedAfterFiles(done, k, story_failed) ==
  IF story_failed THEN done ELSE Append(done, k)

\* process_files_for_stories: sc_upload_files returns (successful_files,
\* failed_files); nok of the n files of the comment were uploaded.  A failed
\* file ends the story's comment loop; otherwise the loop goes on to the
\* next comment with files, or the story is finished.
UploadReturn ==
  /\ pc = "files"
  /\ Pending
  /\ LET c == NextComment(stories[idx])
         n == stories[idx].entity.attachments[c]
     IN \E nok \in 0..n :
       LET successful_files == FileEntities(sc_next_id, nok)
           failed_files == [k \in 1..(n - nok) |->
                              [story_id |-> stories[idx].entity.name]]
           story_failed == failed_files # <<>>
           popped == pop_attachments(stories[idx], c)
           more == ~story_failed /\ OpenComments(popped) # {}
       IN  /\ calls' = Returned(IF nok = n THEN "ok" ELSE "fail")
           /\ ledger' = LedgerAfterUpload(ledger, successful_files,
                                          failed_files)
           /\ store' = store \cup SeqToSet(LedgerRows(successful_files))
           /\ sc_next_id' = sc_next_id + nok
           /\ stories' =
                [stories EXCEPT ![idx] =
                   [popped EXCEPT !.error_message =
                                    IF story_failed
                                      THEN "Failed to upload files" ELSE @]]
           /\ all_failed_files' = all_failed_files \o failed_files
           /\ failed' = IF story_failed THEN Append(failed, idx)
                        ELSE failed
           /\ processed' = IF more THEN processed
                           ELSE ProcessedAfterFiles(processed, idx,
                                                    story_failed)
           /\ idx' = IF more THEN idx ELSE idx + 1
  /\ UNCHANGED << exportVars, linkVars, commentVars, deleteVars, pc, is_dry_run, interned, labels, epics, iterations,
                  iteration_strings, items, acc, i, created_batch,
                  failed_stories_csv, failed_files_csv, commitVars,
                  mock_global_id >>

Records(indices) == [k \in DOMAIN indices |-> stories[indices[k]]]

\* process_files_for_stories: the failed results are written after the loop.
FilesEnd ==
  /\ pc = "files"
  /\ idx > BatchEnd(i)
  /\ ~Pending
  /\ failed_files_csv' =
       IF is_dry_run THEN failed_files_csv
       ELSE write_failed_files_csv(failed_files_csv, all_failed_files)
  /\ failed_stories_csv' =
       IF is_dry_run THEN failed_stories_csv
       ELSE write_failed_stories(failed_stories_csv, Records(failed))
  /\ pc' = "emit"
  /\ UNCHANGED << exportVars, linkVars, commentVars, deleteVars, is_dry_run, interned, collectorVars, emitVars, batchVars,
                  ledger, commitVars, backendVars >>


RECURSIVE Payloads(_)
Payloads(recs) ==
  IF recs = <<>> THEN <<>>
  ELSE <<Head(recs).entity>> \o Payloads(Tail(recs))

\* Position of story index k in the list of indices.
PosIn(indices, k) == CHOOSE p \in DOMAIN indices : indices[p] = k

\* process_story_batch, dry run: mock_emitter(processed_stories).
MockEmitStories ==
  /\ pc = "emit"
  /\ is_dry_run
  /\ stories' =
       [ k \in DOMAIN stories |->
           IF k \in SeqToSet(processed)
             THEN MockCreated(stories[k],
                              mock_global_id + PosIn(processed, k) - 1)
             ELSE stories[k] ]
  /\ mock_global_id' = mock_global_id + Len(processed)
  /\ created_batch' = processed
  /\ calls' = calls \o [k \in DOMAIN processed |->
                          Call("mock", "story",
                               <<stories[processed[k]].entity>>, "ok")]
  /\ pc' = "write"
  /\ UNCHANGED << exportVars, linkVars, commentVars, deleteVars, is_dry_run, interned, labels, epics, iterations,
                  iteration_strings, emitVars, i, processed, failed,
                  all_failed_files, fileVars, commitVars, sc_next_id, store >>

\* sc_creator.process_batch runs process_files_for_stories a second time on
\* the stories it was given: the stories that would be uploaded again.
second_pass_uploads ==
  { k \in SeqToSet(processed) : NeedsUpload(stories[k], FALSE) }

\* Number of files still declared by the comments of a story.
RECURSIVE FilesLeft(_)
FilesLeft(attachments) ==
  IF attachments = <<>> THEN 0
  ELSE Head(attachments) + FilesLeft(Tail(attachments))

\* Second file pass over one story: the upload calls of its comment loop
\* from comment c on.  When the story fails, the first upload reports a
\* failed file and the loop breaks.
RECURSIVE second_pass_calls_of(_, _, _)
second_pass_calls_of(story, c, fails) ==
  IF c > Len(story.entity.attachments) THEN <<>>
  ELSE IF story.entity.attachments[c] = 0
    THEN second_pass_calls_of(story, c + 1, fails)
  ELSE <<Call("upload_again", "file", <<story.entity>>,
              IF fails THEN "fail" ELSE "ok")>>
       \o (IF fails THEN <<>>
           ELSE second_pass_calls_of(pop_attachments(story, c), c + 1,
                                     FALSE))

\* Second file pass over the batch: the upload calls, story by story; bad
\* are the stories with a file that fails to upload.
RECURSIVE second_pass_calls(_, _)
second_pass_calls(indices, bad) ==
  IF indices = <<>> THEN <<>>
  ELSE second_pass_calls_of(stories[Head(indices)], 1, Head(indices) \in bad)
       \o second_pass_calls(Tail(indices), bad)

\* Second file pass: number of files uploaded by the stories that pass.
RECURSIVE second_pass_files(_, _)
second_pass_files(indices, bad) ==
  IF indices = <<>> THEN 0
  ELSE (IF Head(indices) \in bad THEN 0
        ELSE FilesLeft(stories[Head(indices)].entity.attachments))
       + second_pass_files(Tail(indices), bad)

\* clean_story
clean_story(story) == AllPopped(story)

\* sc_creator.process_batch: second file pass (process_files_for_stories on
\* the stories handed to the emitter, with its uploads, ledger rows and
\* failed rows), clean_story, and the bulk call sc_post("/stories/bulk") is
\* issued for the stories that passed.  A batch handed to the emitter has at
\* most BATCH_SIZE stories, so sc_creator forms one batch of it.
BulkIssue ==
  /\ pc = "emit"
  /\ ~is_dry_run
  /\ processed # <<>>
  /\ ~Pending
  /\ \E bad \in SUBSET second_pass_uploads :
       LET passed == SelectSeq(processed, LAMBDA k : k \notin bad)
           failed_again == SelectSeq(processed, LAMBDA k : k \in bad)
           files == FileEntities(sc_next_id,
                                 second_pass_files(processed, bad))
           cleaned == [ k \in DOMAIN stories |->
                          IF k \in SeqToSet(passed)
                            THEN clean_story(stories[k])
                          ELSE IF k \in bad
                            THEN [stories[k] EXCEPT !.error_message =
                                    "Failed to upload files"]
                          ELSE stories[k] ]
       IN  /\ stories' = cleaned
           /\ processed' = passed
           /\ ledger' = write_to_imported_entities_csv(ledger, files, "a")
           /\ store' = store \cup SeqToSet(LedgerRows(files))
           /\ sc_next_id' = sc_next_id + Len(files)
           /\ failed_files_csv' =
                write_failed_files_csv(
                  failed_files_csv,
                  [k \in DOMAIN failed_again |->
                     [story_id |-> stories[failed_again[k]].entity.name]])
           /\ failed_stories_csv' =
                write_failed_stories(failed_stories_csv,
                                     Records(failed_again))
           /\ calls' = calls \o second_pass_calls(processed, bad)
                         \o << Call("bulk", "story",
                                    [k \in DOMAIN passed |->
                                       cleaned[passed[k]].entity],
                                    "pending") >>
  /\ UNCHANGED << exportVars, linkVars, commentVars, deleteVars, pc, is_dry_run, interned,
                  labels, epics, iterations, iteration_strings, emitVars, i,
                  failed, all_failed_files, created_batch, commitVars,
                  mock_global_id >>

\* The target tracker rejects a bulk request that holds a rejected payload.
BulkAcceptable(indices) == \A k \in SeqToSet(indices) : ~stories[k].parsed_row.bad

StoryEntities(first, n) ==
  [k \in 1..n |-> [id |-> first + k - 1, entity_type |-> "story"]]

\* sc_creator.process_batch: the bulk call returns.  On success every story
\* gets its created entity and the entities are written to the ledger; on
\* failure the batch is written to the failed-stories file, and nothing else
\* is attempted.
BulkReturn ==
  /\ pc = "emit"
  /\ ~is_dry_run
  /\ Pending
  /\ \E ok \in {b \in BOOLEAN : b => BulkAcceptable(processed)} :
       LET created == StoryEntities(sc_next_id, Len(processed))
       IN  /\ calls' = Returned(IF ok THEN "ok" ELSE "fail")
           /\ stories' =
                IF ok
                  THEN [ k \in DOMAIN stories |->
                           IF k \in SeqToSet(processed)
                             THEN [stories[k] EXCEPT !.imported_entity =
                                      created[PosIn(processed, k)]]
                             ELSE stories[k] ]
                  ELSE stories
           /\ ledger' = IF ok
                          THEN write_to_imported_entities_csv(ledger, created,
                                                              "a")
                          ELSE ledger
           /\ store' = IF ok THEN store \cup SeqToSet(LedgerRows(created))
                       ELSE store
           /\ sc_next_id' = IF ok THEN sc_next_id + Len(processed)
                            ELSE sc_next_id
           /\ failed_stories_csv' =
                IF ok THEN failed_stories_csv
                ELSE write_failed_stories(failed_stories_csv,
                                          Records(processed))
           /\ created_batch' = IF ok THEN processed ELSE <<>>
  /\ pc' = "write"
  /\ UNCHANGED << exportVars, linkVars, commentVars, deleteVars, is_dry_run, interned, labels, epics, iterations,
                  iteration_strings, emitVars, i, processed, failed,
                  all_failed_files, failed_files_csv, commitVars,
                  mock_global_id >>

\* sc_creator given no story (every story of the batch failed its uploads).
EmitNothing ==
  /\ pc = "emit"
  /\ ~is_dry_run
  /\ processed = <<>>
  /\ created_batch' = <<>>
  /\ pc' = "write"
  /\ UNCHANGED << exportVars, linkVars, commentVars, deleteVars, is_dry_run, interned, collectorVars, emitVars, i,
                  processed, failed, all_failed_files, fileVars, commitVars,
                  backendVars >>

\* commit: the code after process_story_batch returned, up to the next
\* batch (or the return of commit).
BatchWrite ==
  /\ pc = "write"
  /\ LET entities == Imported(Records(created_batch))
         new_stories == NotWritten(entities, written_entities)
     IN  /\ ledger' = commit_writes(is_dry_run, ledger, new_stories, "a")
         /\ written_entities' =
              IF is_dry_run THEN written_entities
              ELSE written_entities \cup SeqToSet(LedgerRows(new_stories))
         /\ created_entities' =
              created_entities \o (IF is_dry_run THEN entities
                                   ELSE new_stories)
  /\ i' = i + BATCH_SIZE
  /\ pc' = IF i + BATCH_SIZE > Len(stories) THEN "done" ELSE "link"
  /\ UNCHANGED << exportVars, linkVars, commentVars, deleteVars, is_dry_run, interned, collectorVars, emitVars, processed,
                  failed, all_failed_files, created_batch,
                  failed_stories_csv, failed_files_csv, backendVars >>

Next ==
  \/ CollectRunLabel
  \/ Collect
  \/ StartCommit
  \/ MockEmit
  \/ CreateIssue
  \/ CreateReturn
  \/ PhaseEnd
  \/ Link
  \/ FilesLocal
  \/ UploadIssue
  \/ UploadReturn
  \/ FilesEnd
  \/ MockEmitStories
  \/ BulkIssue
  \/ BulkReturn
  \/ EmitNothing
  \/ BatchWrite

Spec == Init /\ [][Next]_vars

\* ------------------------------------- delete_imported_entities.py: main
MaxLedgerRows == 3
MaxRuns == 2

\* Rows a ledger handed to the deletion script can hold, in the order an
\* import writes them; the last one has a type the script does not know.
DeleteUniverse ==
  << [type |-> "label", id |-> 1], [type |-> "epic", id |-> 2],
     [type |-> "iteration", id |-> 3], [type |-> "file", id |-> 4],
     [type |-> "story", id |-> 5], [type |-> "story", id |-> 6],
     [type |-> "milestone", id |-> 1] >>

\* The ledger files the script is run on: no file, or the header followed
\* by up to MaxLedgerRows rows (a row can occur more than once).
DeleteLedgers ==
  {<<>>} \cup
  UNION { { <<Header>> \o [k \in 1..n |-> DeleteUniverse[f[k]]] :
              f \in { g \in [1..n -> DOMAIN DeleteUniverse] :
                        \A a, b \in 1..n : a < b => g[a] <= g[b] } } :
          n \in 0..MaxLedgerRows }

\* main: type_order.get(x[0], 0)
type_order_storiesFirst(t) == CASE t = "story" -> 1
                                [] t = "file" -> 2
                                [] t = "iteration" -> 3
                                [] t = "epic" -> 4
                                [] t = "label" -> 5
                                [] OTHER -> 0
type_order(t) == CASE t = "file" -> 1
                   [] t = "story" -> 2
                   [] t = "iteration" -> 3
                   [] t = "epic" -> 4
                   [] t = "label" -> 5
                   [] OTHER -> 0

\* main: sorted(entities_to_delete, key=...): a stable sort of a set, whose
\* iteration order is arbitrary.
SortedOrders(S) ==
  { o \in Orders(S) :
      \A a, b \in DOMAIN o :
        a < b => type_order(o[a].type) <= type_order(o[b].type) }

\* delete_entity: the entity types that have a URL prefix.
KnownTypes == {"story", "epic", "file", "iteration", "label"}

\* Answers of sc_delete: a response with status 204, an HTTPError with
\* status 404, an HTTPError with status 500 (a response with another status
\* and any other failure of the request are handled like the latter:
\* delete_entity reports them and returns False).
DeleteResponses == {"204", "404", "500"}

\* delete_entity: the answers for which it returns True.
delete_confirmed_only204(response) == response = "204"
delete_confirmed_any(response) == TRUE
delete_confirmed(response) == response \in {"204", "404"}

\* update_csv_after_deletion: the rows kept.
remaining_entities_firstOnly(file, deletions) ==
  LET Keep(k) == \/ file[k] \notin deletions
                 \/ \E j \in 2..(k - 1) : file[j] = file[k]
      RECURSIVE From(_)
      From(k) == IF k > Len(file) THEN <<>>
                 ELSE (IF Keep(k) THEN <<file[k]>> ELSE <<>>) \o From(k + 1)
  IN  From(2)
remaining_entities(file, deletions) ==
  LET Keep(r) == r \notin deletions
  IN  SelectSeq(Tail(file), Keep)

\* update_csv_after_deletion(successful_deletions) applied to the ledger.
update_csv_after_deletion(file, deletions) ==
  IF deletions = {} THEN file
  ELSE <<file[1]>> \o remaining_entities(file, deletions)

DeleteEvent(type, id, response) ==
  [run |-> drun, kind |-> "delete", type |-> type, id |-> id,
   response |-> response]
SleepEvent ==
  [run |-> drun, kind |-> "sleep", type |-> "", id |-> NoId, response |-> ""]

\* The state in which the deletion script is run: the import is over.
InitDelete ==
  /\ pc = "deletion"
  /\ is_dry_run = FALSE /\ interned = FALSE
  /\ labels = <<>> /\ epics = <<>> /\ stories = <<>> /\ iterations = <<>>
  /\ iteration_strings = {}
  /\ items = <<>> /\ idx = 1 /\ acc = <<>>
  /\ i = 1 /\ processed = <<>> /\ failed = <<>> /\ all_failed_files = <<>>
  /\ created_batch = <<>>
  /\ written_entities = {} /\ created_entities = <<>>
  /\ ledger \in DeleteLedgers
  /\ failed_stories_csv = <<>> /\ failed_files_csv = <<>>
  /\ sc_next_id = FirstFreshId
  /\ mock_global_id = 0
  /\ store = {}
  /\ calls = <<>>
  /\ dpc = "idle" /\ drun = 0 /\ apply = FALSE
  /\ ledger_read = <<>> /\ sorted_entities = <<>> /\ dpos = 1
  /\ successful_deletions = {} /\ exit_code = NoExit /\ dlog = <<>>
  /\ ExportOff /\ LinksOff /\ CommentOff

\* main: the ledger file does not exist; return 1.
DeleteFileMissing ==
  /\ dpc = "idle"
  /\ drun < MaxRuns
  /\ ledger = <<>>
  /\ drun' = drun + 1
  /\ apply' \in BOOLEAN
  /\ ledger_read' = ledger
  /\ sorted_entities' = <<>>
  /\ dpos' = 1
  /\ successful_deletions' = {}
  /\ exit_code' = 1
  /\ UNCHANGED << exportVars, linkVars, commentVars, importVars, ledger, dpc, dlog >>

\* main: "if args.apply:" decides whether the deletion loop and the ledger
\* rewrite run.
deletion_applies_always(args_apply) == TRUE
deletion_applies(args_apply) == args_apply

\* main with --apply: the rows are read, deduplicated and sorted.
DeleteRead ==
  /\ dpc = "idle"
  /\ drun < MaxRuns
  /\ ledger # <<>>
  /\ drun' = drun + 1
  /\ apply' = TRUE
  /\ ledger_read' = ledger
  /\ sorted_entities' \in SortedOrders(SeqToSet(Tail(ledger)))
  /\ dpos' = 1
  /\ successful_deletions' = {}
  /\ exit_code' = IF deletion_applies(TRUE) THEN NoExit ELSE 0
  /\ dpc' = IF deletion_applies(TRUE) THEN "deleting" ELSE "idle"
  /\ UNCHANGED << exportVars, linkVars, commentVars, importVars, ledger, dlog >>

\* main without --apply: the rows are read, counted and reported; return 0.
DeleteDryRun ==
  /\ dpc = "idle"
  /\ drun < MaxRuns
  /\ ledger # <<>>
  /\ drun' = drun + 1
  /\ apply' = FALSE
  /\ ledger_read' = ledger
  /\ sorted_entities' \in SortedOrders(SeqToSet(Tail(ledger)))
  /\ dpos' = 1
  /\ successful_deletions' = {}
  /\ exit_code' = IF deletion_applies(FALSE) THEN NoExit ELSE 0
  /\ dpc' = IF deletion_applies(FALSE) THEN "deleting" ELSE "idle"
  /\ UNCHANGED << exportVars, linkVars, commentVars, importVars, ledger, dlog >>

\* main, deletion loop: delete_entity returns False for a type without a
\* URL prefix; no call is made.
DeleteUnknownType ==
  /\ dpc = "deleting"
  /\ dpos <= Len(sorted_entities)
  /\ sorted_entities[dpos].type \notin KnownTypes
  /\ dpos' = dpos + 1
  /\ UNCHANGED << exportVars, linkVars, commentVars, importVars, ledger, dpc, drun, apply, ledger_read,
                  sorted_entities, successful_deletions, exit_code, dlog >>

\* main, deletion loop: delete_entity calls sc_delete; a confirmed deletion
\* is recorded and followed by the 500ms sleep.
DeleteCall ==
  /\ dpc = "deleting"
  /\ dpos <= Len(sorted_entities)
  /\ sorted_entities[dpos].type \in KnownTypes
  /\ \E response \in DeleteResponses :
       LET e == sorted_entities[dpos]
           ok == delete_confirmed(response)
       IN  /\ dlog' = dlog \o <<DeleteEvent(e.type, e.id, response)>>
                           \o (IF ok THEN <<SleepEvent>> ELSE <<>>)
           /\ successful_deletions' =
                IF ok THEN successful_deletions \cup {e}
                ELSE successful_deletions
  /\ dpos' = dpos + 1
  /\ UNCHANGED << exportVars, linkVars, commentVars, importVars, ledger, dpc, drun, apply, ledger_read,
                  sorted_entities, exit_code >>

\* main: after the loop the ledger is rewritten; return 0.
DeleteFinish ==
  /\ dpc = "deleting"
  /\ dpos > Len(sorted_entities)
  /\ ledger' = update_csv_after_deletion(ledger, successful_deletions)
  /\ exit_code' = 0
  /\ dpc' = "idle"
  /\ UNCHANGED << exportVars, linkVars, commentVars, importVars, drun, apply, ledger_read, sorted_entities,
                  dpos, successful_deletions, dlog >>

NextDelete ==
  \/ DeleteFileMissing
  \/ DeleteRead
  \/ DeleteDryRun
  \/ DeleteUnknownType
  \/ DeleteCall
  \/ DeleteFinish

SpecDelete == InitDelete /\ [][NextDelete]_vars

\* ---------------------------------------------- repeated deletion runs
\* The deletion script run again and again with --apply against a tracker
\* that holds the entities of the ledger.  store is the set of entities the
\* tracker holds; dlog is the log of the current run.

\* The rows of a ledger file that delete_entity has a URL prefix for.
KnownRows(file) == { r \in RowsOfLedger(file) : r.type \in KnownTypes }

\* sc_delete: the target tracker answers 204 when it held the entity (and
\* removes it), 404 when it does not hold it; 500 stands for any failure.
tracker_answers(e, held) ==
  IF e \in held THEN {"204", "500"} ELSE {"404", "500"}

InitRerun ==
  /\ pc = "deletion"
  /\ is_dry_run = FALSE /\ interned = FALSE
  /\ labels = <<>> /\ epics = <<>> /\ stories = <<>> /\ iterations = <<>>
  /\ iteration_strings = {}
  /\ items = <<>> /\ idx = 1 /\ acc = <<>>
  /\ i = 1 /\ processed = <<>> /\ failed = <<>> /\ all_failed_files = <<>>
  /\ created_batch = <<>>
  /\ written_entities = {} /\ created_entities = <<>>
  /\ ledger \in DeleteLedgers \ {<<>>}
  /\ failed_stories_csv = <<>> /\ failed_files_csv = <<>>
  /\ sc_next_id = FirstFreshId
  /\ mock_global_id = 0
  /\ store = KnownRows(ledger)
  /\ calls = <<>>
  /\ dpc = "idle" /\ drun = 0 /\ apply = FALSE
  /\ ledger_read = <<>> /\ sorted_entities = <<>> /\ dpos = 1
  /\ successful_deletions = {} /\ exit_code = NoExit /\ dlog = <<>>
  /\ ExportOff /\ LinksOff /\ CommentOff

\* main with --apply, once more: the rows are read, deduplicated and sorted.
\* Runs from the MaxRuns-th on are not told apart.
RerunStart ==
  /\ dpc = "idle"
  /\ drun' = Min(drun + 1, MaxRuns)
  /\ apply' = TRUE
  /\ ledger_read' = ledger
  /\ sorted_entities' \in SortedOrders(SeqToSet(Tail(ledger)))
  /\ dpos' = 1
  /\ successful_deletions' = {}
  /\ exit_code' = NoExit
  /\ dlog' = <<>>
  /\ dpc' = "deleting"
  /\ UNCHANGED << exportVars, linkVars, commentVars, importVars, ledger >>

\* main, deletion loop: delete_entity calls sc_delete and the tracker gives
\* the answer response.
RerunCallAnswer(response) ==
  /\ dpc = "deleting"
  /\ dpos <= Len(sorted_entities)
  /\ sorted_entities[dpos].type \in KnownTypes
  /\ response \in tracker_answers(sorted_entities[dpos], store)
  /\ LET e == sorted_entities[dpos]
         ok == delete_confirmed(response)
     IN  /\ dlog' = dlog \o <<DeleteEvent(e.type, e.id, response)>>
                         \o (IF ok THEN <<SleepEvent>> ELSE <<>>)
         /\ successful_deletions' =
              IF ok THEN successful_deletions \cup {e}
              ELSE successful_deletions
         /\ store' = IF response = "204" THEN store \ {e} ELSE store
  /\ dpos' = dpos + 1
  /\ UNCHANGED << exportVars, linkVars, commentVars, pc, is_dry_run, interned,
                  collectorVars, emitVars, batchVars, fileVars, commitVars,
                  sc_next_id, mock_global_id, calls, dpc, drun, apply,
                  ledger_read, sorted_entities, exit_code >>

\* The call is answered with success or not-found.
RerunCallAnswered == \E response \in {"204", "404"} : RerunCallAnswer(response)

\* The call fails.
RerunCallFails == RerunCallAnswer("500")

\* main: the run stops (the process is killed) or fails (an exception
\* reaches the handler of main, which returns 1) before the ledger is
\* rewritten.  Only the first MaxRuns - 1 runs end this way.
RerunCrash ==
  /\ dpc = "deleting"
  /\ drun < MaxRuns
  /\ exit_code' = 1
  /\ dpc' = "idle"
  /\ UNCHANGED << exportVars, linkVars, commentVars, importVars, ledger, drun, apply,
                  ledger_read, sorted_entities, dpos, successful_deletions,
                  dlog >>

NextRerun ==
  \/ RerunStart
  \/ DeleteUnknownType
  \/ RerunCallAnswered
  \/ RerunCallFails
  \/ RerunCrash
  \/ DeleteFinish

\* The script is run again whenever it is idle and every run makes
\* progress; a call that is made again and again is eventually answered
\* with success or not-found.
SpecRerun ==
  /\ InitRerun
  /\ [][NextRerun]_vars
  /\ WF_vars(RerunStart)
  /\ WF_vars(DeleteUnknownType)
  /\ WF_vars(RerunCallAnswered \/ RerunCallFails)
  /\ SF_vars(RerunCallAnswered)
  /\ WF_vars(DeleteFinish)

\* ------------------------------------------------- build_entity on its own
\* Source rows handed to build_entity: every story_type with declared
\* labels, an iteration and reviewers present or absent.
BuildRows ==
  [ story_type : {"feature", "bug", "chore", "release", "epic"},
    labels : { <<>>, <<"a">>, <<"a", "b">>, <<"b", "a">>,
               <<PIVOTAL_TO_SHORTCUT_LABEL>> },
    iter : { <<>>, <<"42", "d1", "d2">> },
    attach : { <<>> },
    bad : { FALSE },
    reviewers : { <<>>, <<"r1">>, <<"r1", "r2">> } ]

InitBuild ==
  /\ pc = "build"
  /\ is_dry_run = TRUE /\ interned = FALSE
  /\ labels = <<>> /\ epics = <<>> /\ stories = <<>> /\ iterations = <<>>
  /\ iteration_strings = {}
  /\ items = <<>> /\ idx = 1 /\ acc = <<>>
  /\ i = 1 /\ processed = <<>> /\ failed = <<>> /\ all_failed_files = <<>>
  /\ created_batch = <<>>
  /\ written_entities = {} /\ created_entities = <<>>
  /\ ledger = <<>>
  /\ failed_stories_csv = <<>> /\ failed_files_csv = <<>>
  /\ sc_next_id = FirstFreshId
  /\ mock_global_id = 0
  /\ store = {}
  /\ calls = <<>>
  /\ dpc = "off" /\ drun = 0 /\ apply = FALSE
  /\ ledger_read = <<>> /\ sorted_entities = <<>> /\ dpos = 1
  /\ successful_deletions = {} /\ exit_code = NoExit /\ dlog = <<>>
  /\ ExportOff /\ LinksOff /\ CommentOff

\* process_pt_csv_export, loop body: one row is built and collected.
BuildOne ==
  /\ pc = "build"
  /\ \E row \in BuildRows : collect_item(build_entity(row, "1"))
  /\ pc' = "built"
  /\ UNCHANGED << exportVars, linkVars, commentVars, deleteVars, is_dry_run, interned, emitVars, batchVars,
                  fileVars, commitVars, backendVars >>

NextBuild == BuildOne

SpecBuild == InitBuild /\ [][NextBuild]_vars

\* ------------------------- build_entity: users, reviews, malformed rows
MaxCsvRows == 2

\* Names and table cells are tuples of characters.
Ann == <<"a">>
Bob == <<"b">>
Zed == <<"z">>
Pat == <<"p", "|", "q">>
Plain == <<"t">>
Piped == <<"|", "t", "|">>

\* None
NoUser == "None"

\* load_users: source user name -> target user id.  Ann's e-mail belongs to
\* a member of the workspace; Bob's e-mail belongs to no member, so the
\* name is mapped to None; the other names have no e-mail and no entry.
user_config == (Ann :> "u-ann") @@ (Bob :> NoUser)

\* load_workflow_states: source state -> target workflow state id.
workflow_config == [st \in {"started"} |-> 500]

\* A parsed row without owners, requester, reviewers or state.
BareRow ==
  [ story_type |-> "feature", pt_state |-> "", requester |-> <<>>,
    owners |-> <<>>, reviewers |-> <<>>, review_types |-> <<>>,
    review_states |-> <<>> ]

\* The reviewers, review types and review states of a row; the lists of
\* the last two rows are of unequal length.
Reviews ==
  { << <<Ann>>, <<Plain>>, <<Plain>> >>,
    << <<Bob>>, <<Plain>>, <<Piped>> >>,
    << <<Pat, Ann>>, <<Piped, Plain>>, <<Plain, Piped>> >>,
    << <<Ann, Zed>>, <<Plain>>, <<Plain, Plain>> >>,
    << <<Zed, Ann>>, <<Plain, Plain>>, <<Plain>> >> }

\* Rows of the export file; story_type "" is a row without story_type.
ExportRows ==
  { [BareRow EXCEPT !.story_type = t, !.pt_state = st] :
      t \in {"feature", "epic", ""}, st \in {"", "started", "rejected"} }
  \cup
  { [BareRow EXCEPT !.requester = r, !.owners = o] :
      r \in {<<>>, Ann, Bob, Zed},
      o \in {<<>>, <<Ann>>, <<Zed, Ann>>, <<Ann, Bob>>} }
  \cup
  { [BareRow EXCEPT !.reviewers = rv[1], !.review_types = rv[2],
                    !.review_states = rv[3]] : rv \in Reviews }

\* escape_md_table_syntax(s): s.replace("|", "\\|")
RECURSIVE escape_md_table_syntax(_)
escape_md_table_syntax(str) ==
  IF str = <<>> THEN <<>>
  ELSE (IF Head(str) = "|" THEN <<"\\", "|">> ELSE <<Head(str)>>)
       \o escape_md_table_syntax(Tail(str))

\* build_entity: [user_to_sc_id[n] for n in names if n in user_to_sc_id]
RECURSIVE user_ids(_)
user_ids(names) ==
  IF names = <<>> THEN <<>>
  ELSE (IF Head(names) \in DOMAIN user_config
          THEN <<user_config[Head(names)]>> ELSE <<>>)
       \o user_ids(Tail(names))

\* build_entity: d["requested_by_id"], NoUser when the key is not set.
requested_by_id(row) ==
  IF /\ row.requester # <<>>
     /\ row.requester \in DOMAIN user_config
     /\ user_config[row.requester] # NoUser
    THEN user_config[row.requester]
    ELSE NoUser

\* build_entity: the table lines of the review comment, one per element of
\* zip(reviewers, review_types, review_states).
review_table(row) ==
  LET n == Min(Len(row.reviewers),
               Min(Len(row.review_types), Len(row.review_states)))
  IN  [ k \in 1..n |->
          [ reviewer |-> escape_md_table_syntax(row.reviewers[k]),
            review_type |-> escape_md_table_syntax(row.review_types[k]),
            review_status |-> escape_md_table_syntax(row.review_states[k]) ] ]

\* build_entity raises KeyError: d["story_type"] on a row without it, or
\* ctx["workflow_config"][pt_state] for a story whose state is not mapped.
build_raises(row) ==
  \/ row.story_type = ""
  \/ /\ row.story_type # "epic"
     /\ row.pt_state # ""
     /\ row.pt_state \notin DOMAIN workflow_config

\* build_entity: the user, state and review attributes of the entity built
\* from a row on which it does not raise.
build_people(row) ==
  LET story == row.story_type # "epic"
  IN  [ type |-> IF story THEN "story" ELSE "epic",
        workflow_state_id |-> IF story /\ row.pt_state # ""
                                THEN workflow_config[row.pt_state]
                                ELSE NoId,
        requested_by_id |-> IF story THEN requested_by_id(row) ELSE NoUser,
        owner_ids |-> IF story THEN user_ids(row.owners) ELSE <<>>,
        follower_ids |-> IF story THEN user_ids(row.reviewers) ELSE <<>>,
        review_comment |-> IF story THEN review_table(row) ELSE <<>>,
        parsed_row |-> row ]

\* main up to process_pt_csv_export, on an export file of csv_len rows.
InitExport ==
  /\ pc = "export"
  /\ is_dry_run = TRUE /\ interned = FALSE
  /\ labels = <<>> /\ epics = <<>> /\ stories = <<>> /\ iterations = <<>>
  /\ iteration_strings = {}
  /\ items = <<>> /\ idx = 1 /\ acc = <<>>
  /\ i = 1 /\ processed = <<>> /\ failed = <<>> /\ all_failed_files = <<>>
  /\ created_batch = <<>>
  /\ written_entities = {} /\ created_entities = <<>>
  /\ ledger = <<>>
  /\ failed_stories_csv = <<>> /\ failed_files_csv = <<>>
  /\ sc_next_id = FirstFreshId
  /\ mock_global_id = 0
  /\ store = {}
  /\ calls = <<>>
  /\ dpc = "off" /\ drun = 0 /\ apply = FALSE
  /\ ledger_read = <<>> /\ sorted_entities = <<>> /\ dpos = 1
  /\ successful_deletions = {} /\ exit_code = NoExit /\ dlog = <<>>
  /\ export_pc = "reading"
  /\ csv_len \in 1..MaxCsvRows
  /\ row_pos = 1
  /\ built = <<>>
  /\ LinksOff /\ CommentOff

\* process_pt_csv_export, loop body: the row is built and collected.
ExportRow ==
  /\ export_pc = "reading"
  /\ row_pos <= csv_len
  /\ \E row \in ExportRows :
       /\ ~build_raises(row)
       /\ built' = Append(built, build_people(row))
  /\ row_pos' = row_pos + 1
  /\ UNCHANGED << importVars, ledger, deleteVars, linkVars, commentVars, export_pc,
                  csv_len >>

\* process_pt_csv_export, loop body: build_entity raises; nothing catches
\* the exception in process_pt_csv_export or in main.
ExportRowRaises ==
  /\ export_pc = "reading"
  /\ row_pos <= csv_len
  /\ \E row \in ExportRows : build_raises(row)
  /\ export_pc' = "raised"
  /\ UNCHANGED << importVars, ledger, deleteVars, linkVars, commentVars, csv_len,
                  row_pos, built >>

\* process_pt_csv_export: the reader is exhausted.
ExportEnd ==
  /\ export_pc = "reading"
  /\ row_pos > csv_len
  /\ export_pc' = "finished"
  /\ UNCHANGED << importVars, ledger, deleteVars, linkVars, commentVars, csv_len,
                  row_pos, built >>

NextExport ==
  \/ ExportRow
  \/ ExportRowRaises
  \/ ExportEnd

SpecExport == InitExport /\ [][NextExport]_vars

\* ---------------- process_files_for_stories: the links of one comment
MaxAttachments == 2

FileNames == <<"f1.png", "f2.txt", "f3.png">>
ContentTypes == {"image/png", "text/plain"}

\* The attachments a comment declares, ordered by file name as the query of
\* add_attached_files_in_comments returns them; local says whether the file
\* is in the story's directory (filename in all_story_files).
AttachmentLists ==
  UNION { { [k \in 1..n |-> [filename |-> FileNames[f[k]],
                             content_type |-> t[k],
                             local |-> l[k]]] :
              f \in { g \in [1..n -> DOMAIN FileNames] :
                        \A a, b \in 1..n : a < b => g[a] < g[b] },
              t \in [1..n -> ContentTypes],
              l \in [1..n -> BOOLEAN] } :
          n \in 0..MaxAttachments }

\* comment_file_paths: the declared attachments found in the directory.
comment_file_paths(attachments) ==
  LET InDirectory(a) == a.local
  IN  SelectSeq(attachments, InDirectory)

\* The file entities of a successful upload (or of the dry run's mock), one
\* per path, in the order of the paths.
uploaded_files(paths) ==
  [k \in DOMAIN paths |-> [filename |-> paths[k].filename,
                           url |-> "https://files/" \o paths[k].filename]]

\* content_type.startswith('image/')
is_image(content_type) == content_type = "image/png"

\* file_attachment_strings: one link per pair of
\* zip(successful_files, comment_attachments).
file_attachment_strings(successful_files, attachments) ==
  [k \in 1..Min(Len(successful_files), Len(attachments)) |->
     [ filename |-> successful_files[k].filename,
       url |-> successful_files[k].url,
       image |-> is_image(attachments[k].content_type) ]]

\* process_files_for_stories at a comment of a story with a directory.
InitLinks ==
  /\ pc = "comment"
  /\ is_dry_run \in BOOLEAN /\ interned = FALSE
  /\ labels = <<>> /\ epics = <<>> /\ stories = <<>> /\ iterations = <<>>
  /\ iteration_strings = {}
  /\ items = <<>> /\ idx = 1 /\ acc = <<>>
  /\ i = 1 /\ processed = <<>> /\ failed = <<>> /\ all_failed_files = <<>>
  /\ created_batch = <<>>
  /\ written_entities = {} /\ created_entities = <<>>
  /\ ledger = <<>>
  /\ failed_stories_csv = <<>> /\ failed_files_csv = <<>>
  /\ sc_next_id = FirstFreshId
  /\ mock_global_id = 0
  /\ store = {}
  /\ calls = <<>>
  /\ dpc = "off" /\ drun = 0 /\ apply = FALSE
  /\ ledger_read = <<>> /\ sorted_entities = <<>> /\ dpos = 1
  /\ successful_deletions = {} /\ exit_code = NoExit /\ dlog = <<>>
  /\ ExportOff /\ CommentOff
  /\ link_pc = "comment"
  /\ comment_attachments \in AttachmentLists
  /\ comment_links = <<>>

\* No declared attachment, or none found in the directory: the comment is
\* left as it is.
CommentNoFiles ==
  /\ link_pc = "comment"
  /\ comment_file_paths(comment_attachments) = <<>>
  /\ link_pc' = "linked"
  /\ UNCHANGED << importVars, ledger, deleteVars, exportVars, commentVars,
                  comment_attachments, comment_links >>

\* Every file of the comment is uploaded (mocked in a dry run) and the
\* links are appended to the comment text.
CommentUpload ==
  /\ link_pc = "comment"
  /\ comment_file_paths(comment_attachments) # <<>>
  /\ comment_links' =
       file_attachment_strings(
         uploaded_files(comment_file_paths(comment_attachments)),
         comment_attachments)
  /\ link_pc' = "linked"
  /\ UNCHANGED << importVars, ledger, deleteVars, exportVars, commentVars,
                  comment_attachments >>

\* Live run: a file of the comment fails to upload; the comment loop is
\* left and no link is appended.
CommentUploadFails ==
  /\ link_pc = "comment"
  /\ ~is_dry_run
  /\ comment_file_paths(comment_attachments) # <<>>
  /\ link_pc' = "failed"
  /\ UNCHANGED << importVars, ledger, deleteVars, exportVars, commentVars,
                  comment_attachments, comment_links >>

NextLinks ==
  \/ CommentNoFiles
  \/ CommentUpload
  \/ CommentUploadFails

SpecLinks == InitLinks /\ [][NextLinks]_vars

\* ------------------------------------------- add_external_id_comment.py
\* Largest number of stories of the group, and of runs of the script.
MaxGroupStories == 2
MaxCommentRuns == 3

\* What sc_get("/groups/<id>/stories") can return: stories with distinct
\* ids, each with or without an external id; <<>> when there is none or the
\* request failed.
GroupStories ==
  UNION { [1..n -> {"", "pt"}] : n \in 0..MaxGroupStories }

\* str(result['success']): the text written to the CSV.
str_bool(b) == IF b THEN "True" ELSE "False"

\* Truth value of a CSV cell (a string) in a condition.
truthy(cell) == cell # ""

\* create_initial_csv(stories, output_file): one row per story, the
\* comment-related fields empty.
create_initial_csv(fetched) ==
  [k \in DOMAIN fetched |->
     [id |-> k, external_id |-> fetched[k], comment_id |-> "",
      success |-> "", error |-> ""]]

\* process_existing_stories: the rows a comment is posted for.
needs_comment_whateverSuccess(story) == truthy(story.external_id)
needs_comment(story) ==
  truthy(story.external_id) /\ ~truthy(story.success)

\* add_comment_to_story: the result dict; ok tells whether sc_post returned
\* the created comment (it raises otherwise).
add_comment_to_story(ok, new_id) ==
  [success |-> ok,
   comment_id |-> IF ok THEN new_id ELSE "",
   error |-> IF ok THEN "" ELSE "error"]

\* story.update({...}) with the result.
story_update(story, result) ==
  [story EXCEPT !.comment_id = result.comment_id,
                !.success = str_bool(result.success),
                !.error = result.error]

\* process_existing_stories: updated_stories
updated_stories == SubSeq(csv_stories, 1, cpos - 1)

CommentRequest(story, ok) ==
  [run |-> crun, id |-> story.id, external_id |-> story.external_id,
   had_success |-> story.success, ok |-> ok]

\* The script has never run; the tracking CSV does not exist.
InitComment ==
  /\ pc = "comments"
  /\ is_dry_run = FALSE /\ interned = FALSE
  /\ labels = <<>> /\ epics = <<>> /\ stories = <<>> /\ iterations = <<>>
  /\ iteration_strings = {}
  /\ items = <<>> /\ idx = 1 /\ acc = <<>>
  /\ i = 1 /\ processed = <<>> /\ failed = <<>> /\ all_failed_files = <<>>
  /\ created_batch = <<>>
  /\ written_entities = {} /\ created_entities = <<>>
  /\ ledger = <<>>
  /\ failed_stories_csv = <<>> /\ failed_files_csv = <<>>
  /\ sc_next_id = FirstFreshId
  /\ mock_global_id = 0
  /\ store = {}
  /\ calls = <<>>
  /\ dpc = "off" /\ drun = 0 /\ apply = FALSE
  /\ ledger_read = <<>> /\ sorted_entities = <<>> /\ dpos = 1
  /\ successful_deletions = {} /\ exit_code = NoExit /\ dlog = <<>>
  /\ ExportOff /\ LinksOff
  /\ cpc = "idle" /\ crun = 0 /\ tracking_csv = <<>> /\ csv_stories = <<>>
  /\ cpos = 1 /\ comment_log = <<>>

\* main: the CSV does not exist and no story is fetched; return.
CommentNoStories ==
  /\ cpc = "idle"
  /\ crun < MaxCommentRuns
  /\ tracking_csv = <<>>
  /\ crun' = crun + 1
  /\ UNCHANGED << importVars, ledger, deleteVars, exportVars, linkVars, cpc,
                  tracking_csv, csv_stories, cpos, comment_log >>

\* main: the CSV does not exist; the stories of the group are fetched, the
\* initial CSV is created and process_existing_stories reads it.
CommentCreate ==
  /\ cpc = "idle"
  /\ crun < MaxCommentRuns
  /\ tracking_csv = <<>>
  /\ \E fetched \in GroupStories \ {<<>>} :
       /\ tracking_csv' = create_initial_csv(fetched)
       /\ csv_stories' = create_initial_csv(fetched)
  /\ crun' = crun + 1
  /\ cpos' = 1
  /\ cpc' = "running"
  /\ UNCHANGED << importVars, ledger, deleteVars, exportVars, linkVars,
                  comment_log >>

\* main: the CSV exists; process_existing_stories reads it.
CommentRead ==
  /\ cpc = "idle"
  /\ crun < MaxCommentRuns
  /\ tracking_csv # <<>>
  /\ csv_stories' = tracking_csv
  /\ crun' = crun + 1
  /\ cpos' = 1
  /\ cpc' = "running"
  /\ UNCHANGED << importVars, ledger, deleteVars, exportVars, linkVars,
                  tracking_csv, comment_log >>

\* process_existing_stories: a row that gets no comment is kept as it is.
CommentSkip ==
  /\ cpc = "running"
  /\ cpos <= Len(csv_stories)
  /\ ~needs_comment(csv_stories[cpos])
  /\ cpos' = cpos + 1
  /\ UNCHANGED << importVars, ledger, deleteVars, exportVars, linkVars, cpc,
                  crun, tracking_csv, csv_stories, comment_log >>

\* process_existing_stories: add_comment_to_story for the row, whose
\* comment-related fields are updated with the result.
CommentPost ==
  /\ cpc = "running"
  /\ cpos <= Len(csv_stories)
  /\ needs_comment(csv_stories[cpos])
  /\ \E ok \in BOOLEAN :
       LET result == add_comment_to_story(ok, Len(comment_log) + 1)
       IN  /\ csv_stories' = [csv_stories EXCEPT
                                ![cpos] = story_update(@, result)]
           /\ comment_log' = Append(comment_log,
                                    CommentRequest(csv_stories[cpos], ok))
  /\ cpos' = cpos + 1
  /\ UNCHANGED << importVars, ledger, deleteVars, exportVars, linkVars, cpc,
                  crun, tracking_csv >>

\* process_existing_stories: the updated rows are written back; the run is
\* complete.
CommentWrite ==
  /\ cpc = "running"
  /\ cpos > Len(csv_stories)
  /\ tracking_csv' = updated_stories
  /\ cpc' = "idle"
  /\ UNCHANGED << importVars, ledger, deleteVars, exportVars, linkVars, crun,
                  csv_stories, cpos, comment_log >>

NextComments ==
  \/ CommentNoStories
  \/ CommentCreate
  \/ CommentRead
  \/ CommentSkip
  \/ CommentPost
  \/ CommentWrite

SpecComments == InitComment /\ [][NextComments]_vars


\* =================================================================
\* Properties
\* =================================================================
IsCreation(c) == c.op \in {"create", "bulk", "mock"}

PhaseRank(type) == CASE type = "label" -> 1
                     [] type = "epic" -> 2
                     [] type = "iteration" -> 3
                     [] OTHER -> 4

ThisRun(r) == r.id >= FirstFreshId

\* C1: creation calls occur in phase order labels, epics, iterations,
\* stories, and a creation call is issued only after every earlier call has
\* returned: in the log of calls no creation call of a later phase precedes
\* one of an earlier phase, and only the last call can be in flight.
C1_PhaseOrder ==
  \A b \in DOMAIN calls :
    \A a \in 1..(b - 1) :
      /\ calls[a].ret # "pending"
      /\ (IsCreation(calls[a]) /\ IsCreation(calls[b]))
           => PhaseRank(calls[a].type) <= PhaseRank(calls[b].type)

C1_Witness ==
  /\ pc = "done"
  /\ ~is_dry_run
  /\ \A t \in {"label", "epic", "iteration", "story"} :
       \E k \in DOMAIN calls : IsCreation(calls[k]) /\ calls[k].type = t

\* C2: every (type, id) row of the ledger is an entity for which the target
\* tracker has returned a successful creation or upload response; no row
\* exists for something not yet submitted, in flight, or failed.
C2_WriteAfterConfirm ==
  \A r \in RowsOfLedger(ledger) : r \in store

C2_Witness ==
  /\ ~is_dry_run
  /\ \E r \in RowsOfLedger(ledger) : ThisRun(r)
  /\ \E k \in DOMAIN calls : calls[k].ret = "fail"
  /\ Pending

\* C3: when the bulk-create call of a batch of N stories has failed, the N
\* stories of that batch are then attempted one by one (the N calls that
\* follow the bulk call are single story creations of the batch's payloads).
C3_BulkFallback ==
  \A k \in DOMAIN calls :
    (/\ calls[k].op = "bulk"
     /\ calls[k].ret = "fail"
     /\ (k < Len(calls) \/ pc # "emit"))
    => \A j \in DOMAIN calls[k].payloads :
         /\ k + j \in DOMAIN calls
         /\ calls[k + j].op = "create"
         /\ calls[k + j].type = "story"
         /\ calls[k + j].payloads = <<calls[k].payloads[j]>>

\* C4: when the creation call for a single label, epic or iteration has
\* failed, the record is in a remediation file and the submission goes on
\* (no error leaves the emitter).
C4_RecordLevelFailure ==
  \A k \in DOMAIN calls :
    (/\ calls[k].op = "create"
     /\ calls[k].type \in {"label", "epic", "iteration"}
     /\ calls[k].ret = "fail")
    => /\ \E f \in DOMAIN failed_stories_csv :
            failed_stories_csv[f].story_name = calls[k].payloads[1].name
       /\ pc # "raised"

\* C5: no backend or file error propagates out of commit.
C5_CommitNeverRaises == pc # "raised"

\* C6: after commit every submitted record carries imported_entity or
\* error_message.
C6_EveryRecordSettled ==
  pc = "done" =>
    \A rec \in SeqToSet(labels) \cup SeqToSet(epics)
                 \cup SeqToSet(iterations) \cup SeqToSet(stories) :
      rec.imported_entity # NoEntity \/ rec.error_message # ""

\* C7 (as stated): every story or epic payload submitted to the backend has
\* only top-level attributes of its type's allow-list.
C7_AllowListOnly ==
  \A k \in DOMAIN calls :
    (IsCreation(calls[k]) /\ calls[k].type \in {"story", "epic"})
    => \A p \in DOMAIN calls[k].payloads :
         calls[k].payloads[p].keys \subseteq select_keys[calls[k].type]

\* C7 (amended): every story or epic payload submitted to the backend has
\* only top-level attributes of its type's allow-list, except that a story
\* payload may also carry epic_id, which epic linkage sets after the build.
C7_AllowListOrEpicId ==
  \A k \in DOMAIN calls :
    (IsCreation(calls[k]) /\ calls[k].type \in {"story", "epic"})
    => \A p \in DOMAIN calls[k].payloads :
         calls[k].payloads[p].keys \subseteq
           select_keys[calls[k].type]
             \cup (IF calls[k].type = "story" THEN {"epic_id"} ELSE {})

C7_Witness ==
  /\ \E k \in DOMAIN calls :
       /\ calls[k].type = "story" /\ IsCreation(calls[k])
       /\ \E p \in DOMAIN calls[k].payloads :
            {"epic_id", "iteration_id"} \subseteq calls[k].payloads[p].keys
  /\ \E k \in DOMAIN calls : calls[k].type = "epic" /\ IsCreation(calls[k])

\* The payload of the creation request for an iteration key.
IterationPayload(key) == IterationEntities(<<key>>)[1].entity

\* C8: one iteration-creation request per distinct iteration key, and after
\* commit every story with an iteration key has the target id of the
\* iteration created for that key.
C8_OneIterationPerKey ==
  pc = "done" =>
    /\ \A key \in iteration_strings :
         Cardinality({ k \in DOMAIN calls :
                         /\ calls[k].type = "iteration"
                         /\ calls[k].payloads = <<IterationPayload(key)>> }) = 1
    /\ Cardinality({ k \in DOMAIN calls : calls[k].type = "iteration" })
         = Cardinality(iteration_strings)
    /\ \A s \in DOMAIN stories :
         stories[s].iteration # NoIteration
         => \E t \in DOMAIN iterations :
              /\ iterations[t].entity = IterationPayload(stories[s].iteration)
              /\ stories[s].entity.iteration_id
                   = iterations[t].imported_entity.id

\* Stories whose epic and iteration linkage has been resolved.
Linked ==
  { k \in DOMAIN stories :
      \/ k < i
      \/ (k <= BatchEnd(i) /\ pc \in {"files", "emit", "write"}) }

IsMarkerName(n) ==
  n \in {PIVOTAL_TO_SHORTCUT_LABEL, PIVOTAL_TO_SHORTCUT_RUN_LABEL}

Max(S) == CHOOSE m \in S : \A n \in S : n <= m

\* Created epics that carry a label of the given name.
EpicsWith(n) ==
  { e \in DOMAIN epics :
      \E l \in DOMAIN epics[e].entity.labels :
        epics[e].entity.labels[l].name = n }

\* Positions of the story's labels that name a non-marker label of an epic.
Matches(story) ==
  { l \in DOMAIN story.entity.labels :
      /\ ~IsMarkerName(story.entity.labels[l].name)
      /\ EpicsWith(story.entity.labels[l].name) # {} }

\* C9: after linkage resolution a story with a label naming a non-marker
\* label of a created epic has the epic id of the last such label (last epic
\* scanned); a story with no such label has no epic_id.
C9_LastMatchWins ==
  \A k \in Linked :
    LET story == stories[k]
        M == Matches(story)
    IN  IF M = {}
          THEN story.entity.epic_id = NoId /\ "epic_id" \notin story.entity.keys
          ELSE story.entity.epic_id =
                 epics[Max(EpicsWith(story.entity.labels[Max(M)].name))]
                   .imported_entity.id

Count(file, r) == Cardinality({ k \in DOMAIN file : file[k] = r })

\* C10: a live commit removes no row an earlier commit recorded and adds no
\* (type, id) pair the ledger already contains.
C10_CommitKeepsLedger ==
  [][ ~is_dry_run =>
        /\ \A r \in RowsOfLedger(ledger) :
             ~ThisRun(r) => r \in RowsOfLedger(ledger')
        /\ \A r \in RowsOfLedger(ledger') :
             Count(ledger', r) > Count(ledger, r) => Count(ledger, r) = 0
    ]_vars


\* ------------------------------------------- ledger during a live commit
CreatedTypes == {"label", "epic", "iteration", "story"}

\* C11: in a live run the ledger holds a row for every label, epic,
\* iteration and story the run has created so far, at the end of every
\* phase and story batch and at every step in between (a ledger write is
\* taken to succeed): a run killed at any point leaves those rows behind.
C11_LedgerCoversCreated ==
  ~is_dry_run =>
    \A r \in store :
      (ThisRun(r) /\ r.type \in CreatedTypes) => r \in RowsOfLedger(ledger)

C11_Witness ==
  /\ ~is_dry_run
  /\ pc = "done"
  /\ i > 1
  /\ \A t \in CreatedTypes : \E r \in store : ThisRun(r) /\ r.type = t

\* ------------------------------------------------------ failed uploads
\* Names of the stories for which an upload call has reported a failed file.
UploadFailed ==
  { calls[k].payloads[1].name :
      k \in { j \in DOMAIN calls :
                calls[j].op = "upload" /\ calls[j].ret = "fail" } }

\* Names of the stories submitted for creation so far.
Submitted ==
  UNION { { calls[k].payloads[p].name : p \in DOMAIN calls[k].payloads } :
            k \in { j \in DOMAIN calls :
                      IsCreation(calls[j]) /\ calls[j].type = "story" } }

\* The stories whose batch has been through process_files_for_stories.
FilesDone ==
  { k \in DOMAIN stories :
      \/ k < i
      \/ (k <= BatchEnd(i) /\ pc \in {"emit", "write"}) }

\* The stories whose batch has been through the emitter.
Emitted ==
  { k \in DOMAIN stories :
      \/ k < i
      \/ (k <= BatchEnd(i) /\ pc = "write") }

\* C12: in a live run a story with a failed attachment upload is never
\* submitted for creation, carries an error message, and is in the
\* failed-stories file once its batch has been through the file pass; the
\* other stories of its batch are still submitted.
C12_FailedUploadSkipsStory ==
  (~is_dry_run /\ stories # <<>>) =>
    LET upload_failed == UploadFailed
        submitted == Submitted
    IN  \A k \in DOMAIN stories :
          LET name == stories[k].entity.name
          IN  IF name \in upload_failed
                THEN /\ name \notin submitted
                     /\ stories[k].error_message # ""
                     /\ k \in FilesDone
                          => \E f \in DOMAIN failed_stories_csv :
                               failed_stories_csv[f].story_name = name
                ELSE k \in Emitted => name \in submitted

C12_Witness ==
  /\ ~is_dry_run
  /\ pc = "done"
  /\ UploadFailed # {}
  /\ \E k \in DOMAIN stories :
       /\ stories[k].entity.name \notin UploadFailed
       /\ stories[k].entity.name \in Submitted
       /\ \E j \in DOMAIN stories :
            /\ stories[j].entity.name \in UploadFailed
            /\ (j - 1) \div BATCH_SIZE = (k - 1) \div BATCH_SIZE

RECURSIVE Increasing(_)
Increasing(entities) ==
  IF Len(entities) < 2 THEN TRUE
  ELSE entities[1].id < entities[2].id /\ Increasing(Tail(entities))

\* The list the emitter was given in the current phase, where commit still
\* holds it.
EmitterInput ==
  CASE pc = "labels" -> labels
    [] pc = "epics" -> epics
    [] OTHER -> items

\* C18: in a dry run no backend call fails, the fabricated ids strictly
\* increase over all calls of the run, every item handed to the emitter comes
\* back with an imported entity, in the order it was given, and no two
\* dry-run entities share an id.
C18_MockBackend ==
  is_dry_run =>
    /\ \A k \in DOMAIN calls : calls[k].op = "mock" /\ calls[k].ret = "ok"
    /\ Increasing(created_entities \o Imported(acc))
    /\ \A e \in SeqToSet(created_entities \o Imported(acc)) :
         e.id >= 0 /\ e.id < mock_global_id
    /\ (pc \in NonStoryPhases /\ idx > Len(items)) =>
         /\ Payloads(acc) = Payloads(EmitterInput)
         /\ \A k \in DOMAIN acc : acc[k].imported_entity # NoEntity
    /\ pc = "write" =>
         /\ created_batch = processed
         /\ \A k \in SeqToSet(created_batch) :
              stories[k].imported_entity # NoEntity
         /\ Increasing(created_entities
                         \o Imported(Records(created_batch)))

C18_Witness ==
  /\ is_dry_run
  /\ pc = "done"
  /\ Len(created_entities) = Len(calls)
  /\ \A t \in CreatedTypes :
       \E k \in DOMAIN created_entities : created_entities[k].entity_type = t

\* ------------------------------------------------------------- run label
\* C19: in every run the first call to the backend creates the per-run
\* marker label, also when the run collected nothing else.
C19_RunLabelFirst ==
  calls # <<>> =>
    /\ IsCreation(calls[1])
    /\ calls[1].type = "label"
    /\ calls[1].payloads = <<build_run_label_entity.entity>>

C19_Witness ==
  /\ pc = "done"
  /\ stories = <<>> /\ epics = <<>> /\ iterations = <<>>
  /\ Len(calls) = 1
  /\ calls[1].ret = "ok"

\* ---------------------------------------------------------- deletion runs
\* The order of the deletion claim: files, stories, iterations, epics, labels.
DeletionRank(t) == CASE t = "file" -> 1
                     [] t = "story" -> 2
                     [] t = "iteration" -> 3
                     [] t = "epic" -> 4
                     [] OTHER -> 5

DeleteCalls(run) ==
  { k \in DOMAIN dlog : dlog[k].kind = "delete" /\ dlog[k].run = run }

\* C14: within an --apply deletion run no delete call for an entity of one
\* type follows a delete call for an entity of a type later in the order
\* files, stories, iterations, epics, labels.
C14_DeletionOrder ==
  \A run \in 1..drun :
    \A a, b \in DeleteCalls(run) :
      a < b => DeletionRank(dlog[a].type) <= DeletionRank(dlog[b].type)

C14_Witness ==
  /\ dpc = "idle"
  /\ \E a, b, c \in DeleteCalls(1) :
       /\ a < b /\ b < c
       /\ dlog[a].type = "file" /\ dlog[b].type = "story"
       /\ dlog[c].type = "label"

\* The last deletion run was an --apply run and has returned.
ApplyRunOver == dpc = "idle" /\ drun > 0 /\ apply /\ ledger_read # <<>>

Row(e) == [type |-> e.type, id |-> e.id]

\* C15: a delete call answered 404 counts as a deletion: the run goes on to
\* every remaining entity, returns 0, and the row is gone from the ledger.
C15_NotFoundIsSuccess ==
  \A k \in DeleteCalls(drun) :
    dlog[k].response = "404" =>
      /\ Row(dlog[k]) \in successful_deletions
      /\ exit_code \in {NoExit, 0}
      /\ ApplyRunOver =>
           /\ exit_code = 0
           /\ Row(dlog[k]) \notin SeqToSet(ledger)
           /\ \A e \in SeqToSet(sorted_entities) :
                e.type \in KnownTypes
                  => \E j \in DeleteCalls(drun) : Row(dlog[j]) = e

C15_Witness ==
  /\ ApplyRunOver
  /\ \E a, b \in DeleteCalls(drun) :
       /\ a < b
       /\ dlog[a].response = "404"
       /\ dlog[b].response = "500"

\* Entities a finished --apply run confirmed deleted (204 or 404).
ConfirmedIn(run) ==
  { Row(dlog[k]) : k \in { j \in DeleteCalls(run) :
                             dlog[j].response \in {"204", "404"} } }

\* The deletion runs that have returned.
RunsOver == IF dpc = "idle" THEN 1..drun ELSE 1..(drun - 1)

\* C16: an entity of the ledger that an --apply deletion run deleted has no
\* row in the ledger once that run is over, and no later deletion run issues
\* a delete call for it.
C16_DeletedRowsGone ==
  \A run \in RunsOver :
    \A e \in ConfirmedIn(run) :
      /\ e \notin SeqToSet(ledger)
      /\ \A k \in DOMAIN dlog :
           (dlog[k].kind = "delete" /\ dlog[k].run > run) => Row(dlog[k]) # e

C16_Witness ==
  /\ dpc = "idle"
  /\ drun = MaxRuns
  /\ apply
  /\ ConfirmedIn(1) # {}
  /\ DeleteCalls(2) # {}
  /\ \E k \in DOMAIN ledger_read, j \in DOMAIN ledger_read :
       k < j /\ ledger_read[k] = ledger_read[j]

\* C17: after an --apply run the ledger is the ledger the run read without
\* the rows of the entities the run confirmed deleted: rows whose call
\* failed and rows of unknown type are kept, in their order.
C17_OnlyConfirmedRemoved ==
  ApplyRunOver =>
    LET Kept(r) == r \notin ConfirmedIn(drun)
    IN  ledger = <<Header>> \o SelectSeq(Tail(ledger_read), Kept)

C17_Witness ==
  /\ ApplyRunOver
  /\ ConfirmedIn(drun) # {}
  /\ \E k \in DeleteCalls(drun) : dlog[k].response = "500"
  /\ \E r \in SeqToSet(ledger) : r # Header /\ r.type \notin KnownTypes
  /\ Len(ledger) = 3

\* ------------------------------------------------------------ build_entity
LabelNames(item) ==
  [k \in DOMAIN item.entity.labels |-> item.entity.labels[k].name]

\* C20: the labels of a built payload are the row's declared labels followed
\* by the migration label and the run label (then the pivotal-release label
\* of a release, then the review label of a story with reviewers); a release
\* row is built as type story with story_type chore, an epic row as type
\* epic, any other row as a story of the row's story_type.
C20_BuiltLabelsAndType ==
  \A item \in SeqToSet(stories) \cup SeqToSet(epics) :
    LET row == item.parsed_row
        names == LabelNames(item)
        n == Len(row.labels)
        release == IF row.story_type = "release"
                     THEN <<PIVOTAL_RELEASE_TYPE_LABEL>> ELSE <<>>
        review == IF row.story_type # "epic" /\ row.reviewers # <<>>
                    THEN <<PIVOTAL_HAD_REVIEW_LABEL>> ELSE <<>>
    IN  /\ Len(names) >= n + 2
        /\ SubSeq(names, 1, n + 2)
             = row.labels \o << PIVOTAL_TO_SHORTCUT_LABEL,
                                PIVOTAL_TO_SHORTCUT_RUN_LABEL >>
        /\ SubSeq(names, n + 3, Len(names)) = release \o review
        /\ "labels" \in item.entity.keys
        /\ item.type = (IF row.story_type = "epic" THEN "epic" ELSE "story")
        /\ item.entity.story_type =
             (IF row.story_type = "release" THEN "chore" ELSE row.story_type)

C20_Witness ==
  /\ pc = "built"
  /\ \E k \in DOMAIN stories :
       /\ stories[k].parsed_row.story_type = "release"
       /\ stories[k].parsed_row.labels = <<"b", "a">>
       /\ stories[k].entity.story_type = "chore"
       /\ Len(stories[k].entity.labels) = 5

\* ------------------------------------------------------ linkage and batches
\* C24: whenever iteration linkage is about to be resolved for a batch, the
\* map from source iteration id to target iteration id has an entry for
\* every story of the batch that carries a source iteration id, with the
\* mock backend and with the live backend whatever the iteration-creation
\* calls returned.
C24_IterationMappingComplete ==
  pc = "link" =>
    \A k \in DOMAIN stories :
      (k >= i /\ k < i + BATCH_SIZE /\ stories[k].pt_iteration_id # "")
        => stories[k].pt_iteration_id
             \in DOMAIN collect_pt_iteration_mapping(iterations)

C24_Witness ==
  /\ pc = "link"
  /\ ~is_dry_run
  /\ i > 1
  /\ Cardinality(iteration_strings) = 2
  /\ stories[i].pt_iteration_id # ""

\* C25: the label-name to epic-id map of epic linkage never has the
\* migration label name or the run label name as a key, and a story that
\* shares only marker labels with the created epics has no epic_id.
C25_NoMarkerKeys ==
  pc \in {"link", "files", "emit", "write", "done"} =>
    /\ \A n \in DOMAIN collect_epic_label_mapping(epics) : ~IsMarkerName(n)
    /\ \A k \in Linked :
         Matches(stories[k]) = {} => stories[k].entity.epic_id = NoId

BlockOf(k) == (k - 1) \div BATCH_SIZE

StoryIndex(name) == CHOOSE k \in DOMAIN stories : stories[k].entity.name = name

StoryCalls ==
  { k \in DOMAIN calls : IsCreation(calls[k]) /\ calls[k].type = "story" }

\* C26: the stories go through commit in consecutive blocks of BATCH_SIZE
\* in collection order (the last block holds the rest): the stories in
\* file processing and submission at any time are exactly one such block,
\* every story before it has been through its own block and none after it,
\* no story is submitted twice, submissions follow collection order, and a
\* submitted payload carries the linkage resolved for it.
C26_Batches ==
  LET story_calls == StoryCalls
      submitted == Submitted
      indices == [c \in story_calls |->
                    [p \in DOMAIN calls[c].payloads |->
                       StoryIndex(calls[c].payloads[p].name)]]
  IN
  /\ pc \in {"emit", "write"} =>
       LET B == SeqToSet(processed) \cup SeqToSet(failed)
       IN  /\ B # {}
           /\ \A k \in DOMAIN stories :
                /\ k \in B <=> \A b \in B : BlockOf(k) = BlockOf(b)
                /\ (\A b \in B : BlockOf(k) > BlockOf(b))
                     => stories[k].entity.name \notin submitted
                /\ (\A b \in B : BlockOf(k) < BlockOf(b))
                     => \/ stories[k].entity.name \in submitted
                        \/ stories[k].entity.name \in UploadFailed
  /\ \A a \in story_calls :
       /\ Len(indices[a]) <= BATCH_SIZE
       /\ \A p, q \in DOMAIN indices[a] :
            /\ BlockOf(indices[a][p]) = BlockOf(indices[a][q])
            /\ p < q => indices[a][p] < indices[a][q]
       /\ \A b \in story_calls :
            a < b => \A p \in DOMAIN indices[a], q \in DOMAIN indices[b] :
                       indices[a][p] < indices[b][q]
       /\ \A p \in DOMAIN indices[a] :
            LET payload == calls[a].payloads[p]
                story == stories[indices[a][p]]
            IN  /\ story.pt_iteration_id # "" => payload.iteration_id # NoId
                /\ payload.epic_id = NoId => Matches(story) = {}

C26_Witness ==
  /\ pc = "done"
  /\ ~is_dry_run
  /\ Len(stories) = BATCH_SIZE + 1
  /\ \E a, b \in StoryCalls :
       /\ a < b
       /\ calls[a].ret = "ok" /\ calls[b].ret = "ok"
       /\ Len(calls[a].payloads) = BATCH_SIZE
       /\ calls[b].payloads[1].iteration_id # NoId

\* C28: in an --apply deletion run a delay follows every delete call that is
\* followed by another delete call of the run.
C28_DelayBetweenCalls ==
  \A k \in DOMAIN dlog :
    (/\ dlog[k].kind = "delete"
     /\ k < Len(dlog)
     /\ dlog[k + 1].run = dlog[k].run)
      => dlog[k + 1].kind = "sleep"

\* C29: after a live commit no two rows of the ledger have the same
\* (type, id).
C29_LedgerRowsOnce ==
  (pc = "done" /\ ~is_dry_run) =>
    \A r \in RowsOfLedger(ledger) : Count(ledger, r) = 1

\* C30: every story whose linkage has been resolved and that has an
\* iteration key carries the target id of the iteration created from that
\* very key: same source iteration id, start date and end date.
C30_IterationOfExactKey ==
  \A k \in Linked :
    stories[k].iteration # NoIteration =>
      \E t \in DOMAIN iterations :
        /\ iterations[t].entity = IterationPayload(stories[k].iteration)
        /\ iterations[t].imported_entity.id = stories[k].entity.iteration_id

\* --------------------------------------------- reviews, users, bad rows
\* Every "|" of the cell is preceded by a backslash.
Escaped(cell) ==
  \A k \in DOMAIN cell : cell[k] = "|" => (k > 1 /\ cell[k - 1] = "\\")

\* The cell without its backslashes.
Unescaped(cell) ==
  LET NotBackslash(c) == c # "\\"
  IN  SelectSeq(cell, NotBackslash)

\* C21: the review comment of a story with reviewers has one table row per
\* reviewer, in order, showing that reviewer, with every "|" of every cell
\* escaped, also when review_types or review_states is the shorter list.
C21_OneRowPerReviewer ==
  \A b \in DOMAIN built :
    (built[b].type = "story" /\ built[b].parsed_row.reviewers # <<>>) =>
      LET table == built[b].review_comment
          row == built[b].parsed_row
      IN  /\ Len(table) = Len(row.reviewers)
          /\ \A k \in DOMAIN table :
               /\ Escaped(table[k].reviewer)
               /\ Escaped(table[k].review_type)
               /\ Escaped(table[k].review_status)
               /\ Unescaped(table[k].reviewer) = row.reviewers[k]

\* The names that resolve to a target user, and the ids they resolve to.
Resolves(name) ==
  name \in DOMAIN user_config /\ user_config[name] # NoUser

RECURSIVE ResolvedIds(_)
ResolvedIds(names) ==
  IF names = <<>> THEN <<>>
  ELSE (IF Resolves(Head(names)) THEN <<user_config[Head(names)]>> ELSE <<>>)
       \o ResolvedIds(Tail(names))

\* C22: in a built story owner_ids and follower_ids are the target ids of
\* the owners and reviewers that resolve to a target user, in order, with no
\* null entry, and requested_by_id is set exactly when the requester
\* resolves.
C22_ResolvedUsersOnly ==
  \A b \in DOMAIN built :
    built[b].type = "story" =>
      LET row == built[b].parsed_row
      IN  /\ built[b].owner_ids = ResolvedIds(row.owners)
          /\ built[b].follower_ids = ResolvedIds(row.reviewers)
          /\ NoUser \notin SeqToSet(built[b].owner_ids)
          /\ NoUser \notin SeqToSet(built[b].follower_ids)
          /\ built[b].requested_by_id # NoUser <=> Resolves(row.requester)

\* C23: a row without story_type or with an unmapped workflow state is not
\* collected, and the rows after it are still read: as long as rows remain
\* after the current one the export keeps reading.
C23_BadRowDoesNotStopExport ==
  /\ \A b \in DOMAIN built :
       /\ built[b].parsed_row.story_type # ""
       /\ built[b].workflow_state_id # NoId
            <=> (built[b].type = "story" /\ built[b].parsed_row.pt_state # "")
  /\ row_pos < csv_len => export_pc = "reading"

\* ------------------------------------------------------- attachment links
\* C27: once a comment has been handled, it has one link per uploaded file,
\* pointing to that file's URL, in image syntax exactly when the content
\* type declared for that file is an image type, also when declared
\* attachments are missing from the directory.
C27_LinkPerUploadedFile ==
  link_pc = "linked" =>
    LET uploaded == comment_file_paths(comment_attachments)
    IN  /\ Len(comment_links) = Len(uploaded)
        /\ \A k \in DOMAIN comment_links :
             /\ comment_links[k].filename = uploaded[k].filename
             /\ comment_links[k].url = "https://files/" \o uploaded[k].filename
             /\ comment_links[k].image
                  <=> uploaded[k].content_type = "image/png"

\* ------------------------------------------------------ second file pass
\* The upload calls of either file pass.
UploadCalls ==
  { k \in DOMAIN calls : calls[k].op \in {"upload", "upload_again"} }

\* The comment an upload call carries the files of: the first comment of
\* the submitted story that still declares files.
UploadComment(c) ==
  CHOOSE n \in DOMAIN c.payloads[1].attachments :
    /\ c.payloads[1].attachments[n] > 0
    /\ \A m \in 1..(n - 1) : c.payloads[1].attachments[m] = 0

\* The step in which sc_creator.process_batch runs the second file pass and
\* issues the bulk call.
SecondPassStep ==
  /\ pc = "emit" /\ ~is_dry_run /\ ~Pending
  /\ calls' # calls

\* C31: in a live run no two upload calls carry the files of the same
\* comment of the same story, and the second file pass (inside sc_creator)
\* issues no upload call, writes no failed-story or failed-file row and no
\* ledger row: the only call of that step is the bulk creation call.
C31_UploadedOnce ==
  /\ [](~is_dry_run =>
          \A a, b \in UploadCalls :
            (/\ calls[a].payloads[1].name = calls[b].payloads[1].name
             /\ UploadComment(calls[a]) = UploadComment(calls[b]))
              => a = b)
  /\ [][SecondPassStep =>
          /\ Len(calls') = Len(calls) + 1
          /\ calls'[Len(calls')].op = "bulk"
          /\ failed_stories_csv' = failed_stories_csv
          /\ failed_files_csv' = failed_files_csv
          /\ ledger' = ledger]_vars

\* The second file pass has run over a story whose two comments had their
\* files uploaded by the first pass.
C31_Witness ==
  /\ ~is_dry_run
  /\ Pending
  /\ calls[Len(calls)].op = "bulk"
  /\ \E a, b \in UploadCalls :
       /\ a < b
       /\ calls[a].ret = "ok" /\ calls[b].ret = "ok"
       /\ calls[a].payloads[1].name = calls[b].payloads[1].name
       /\ \E p \in DOMAIN calls[Len(calls)].payloads :
            calls[Len(calls)].payloads[p].name = calls[a].payloads[1].name

\* ------------------------------------------------------------- dry run
\* C32: every step of a dry run leaves the ledger, the failed-stories file
\* and the failed-files file as they were, creates nothing in the target
\* tracker, and the only calls it adds to the log are calls of the
\* simulated backend.
C32_DryRunFrame ==
  [][is_dry_run =>
       /\ ledger' = ledger
       /\ failed_stories_csv' = failed_stories_csv
       /\ failed_files_csv' = failed_files_csv
       /\ store' = store /\ sc_next_id' = sc_next_id
       /\ Len(calls') >= Len(calls)
       /\ \A k \in DOMAIN calls' :
            IF k <= Len(calls) THEN calls'[k] = calls[k]
            ELSE calls'[k].op = "mock"]_vars

\* A dry run over an existing ledger has finished after handling an epic
\* and a story whose comments declare files.
C32_Witness ==
  /\ is_dry_run
  /\ pc = "done"
  /\ ledger = PriorLedger
  /\ epics # <<>>
  /\ \E k \in DOMAIN stories :
       /\ stories[k].parsed_row.attach # <<>>
       /\ stories[k].imported_entity # NoEntity

\* ------------------------------------------------- deletion without --apply
\* The delete calls of the current run.
CallsOfThisRun ==
  { k \in DOMAIN dlog : dlog[k].run = drun /\ dlog[k].kind = "delete" }

\* C33: during and after a deletion run without --apply, no delete call of
\* that run is in the log and the ledger file is as the run found it.
C33_NoApplyNoEffect ==
  (drun > 0 /\ ~apply) =>
    /\ CallsOfThisRun = {}
    /\ ledger = ledger_read
    /\ dpc = "idle"

\* A run without --apply has ended on a ledger that still holds rows of
\* known types, after an earlier --apply run made delete calls.
C33_Witness ==
  /\ drun > 1 /\ ~apply /\ dpc = "idle" /\ exit_code = 0
  /\ dlog # <<>>
  /\ \E k \in DOMAIN ledger : ledger[k].type \in KnownTypes

\* ---------------------------------------------- repeated deletion runs
\* C34: repeated --apply runs, whose calls are eventually answered with
\* success or not-found, reach a ledger without any row of a known type and
\* keep it, also after runs that stopped before rewriting the ledger.
C34_LedgerEventuallyClean == <>[](KnownRows(ledger) = {})

\* A run has rewritten the ledger to one without rows of a known type after
\* a not-found answer for an entity that an earlier, interrupted run had
\* deleted and left in the ledger.
C34_Witness ==
  /\ dpc = "idle" /\ exit_code = 0 /\ drun > 1
  /\ KnownRows(ledger) = {}
  /\ KnownRows(ledger_read) # {}
  /\ \E k \in DOMAIN dlog :
       /\ dlog[k].kind = "delete" /\ dlog[k].response = "404"
       /\ [type |-> dlog[k].type, id |-> dlog[k].id] \in KnownRows(ledger_read)

\* ------------------------------------------------ external-id comments
\* The comment requests sent for story id.
RequestsFor(id) == { k \in DOMAIN comment_log : comment_log[k].id = id }

\* C35: a comment is requested only for a row with an external id and no
\* recorded success; a story whose comment succeeded gets no further
\* request in any later run, so it has at most one successful comment; and
\* once the tracking CSV exists every step keeps its rows (their ids and
\* external ids, in order).
C35_CommentedOnce ==
  /\ [](/\ \A k \in DOMAIN comment_log :
             /\ comment_log[k].external_id # ""
             /\ comment_log[k].had_success # "True"
             /\ \A j \in DOMAIN comment_log :
                  (j < k /\ comment_log[j].id = comment_log[k].id)
                    => ~comment_log[j].ok
        /\ \A r \in SeqToSet(tracking_csv) :
             Cardinality({ k \in RequestsFor(r.id) : comment_log[k].ok }) <= 1)
  /\ [][tracking_csv # <<>> =>
          /\ Len(tracking_csv') = Len(tracking_csv)
          /\ \A k \in DOMAIN tracking_csv :
               /\ tracking_csv'[k].id = tracking_csv[k].id
               /\ tracking_csv'[k].external_id = tracking_csv[k].external_id]_vars

\* Three runs are complete over a CSV with a commented story, whose comment
\* was posted by the first run, and a story without external id.
C35_Witness ==
  /\ cpc = "idle" /\ crun = 3
  /\ \E r \in SeqToSet(tracking_csv) :
       /\ r.success = "True"
       /\ \E k \in RequestsFor(r.id) : comment_log[k].run = 1
  /\ \E r \in SeqToSet(tracking_csv) : r.external_id = ""

====
